---- MODULE Spec2Model ----
(***************************************************************************)
(* Factur-X invoice core: the pydantic domain model (InvoiceLine,          *)
(* InvoiceTotals, VATBreakdown, Invoice), the totals / VAT calculator of   *)
(* InvoiceService and the CII XML codec of XMLGenerator.                   *)
(*                                                                         *)
(* Decimal values are exact fixed-point integers:                          *)
(*   quantity            in tenths            (1 = 0.1)                    *)
(*   unit_price          in cents             (1 = 0.01)                   *)
(*   vat_rate            in percent           (1 = 1 %)                    *)
(*   every money amount  in 10^-5 currency units (1000 = 0.01)             *)
(* so that quantity * unit_price and line_total * (vat_rate / 100) are     *)
(* exact, as they are for python Decimals of this size.                    *)
(***************************************************************************)
EXTENDS Integers, Sequences, FiniteSets, TLC

VARIABLES
    invoice_lines,      \* InvoiceCreateRequest.invoice_lines being assembled
    _sequence_counter,  \* InvoiceService._sequence_counter
    invoice,            \* <<>> or <<the Invoice the last operation returned>>
    totals,             \* <<>> or <<the InvoiceTotals the last operation built>>
    xml,                \* <<>> or <<the XML text last generated / received>>
    report,             \* <<>> or <<the report of validate_xml_structure>>
    error,              \* "none" or the exception the last operation raised
    last,               \* record describing the last operation and its input
    validation_service, \* <<>> or <<the ValidationService constructed>>
    pdf,                \* <<>> or <<the bytes last received / returned>>
    tmp_files,          \* number of temporary files validate_pdfa3 left behind
    configs,            \* the BusinessConfiguration objects created so far
    BUSINESS_CONFIG,    \* index in configs of the object the global is bound to
    _invoices,          \* InvoiceService._invoices: <<key, invoice>> in insertion order
    issued,             \* the numbers generate_invoice_number has returned, in order
    built               \* the invoices create_invoice_from_request has returned

vars == <<invoice_lines, _sequence_counter, invoice, totals, xml, report, error, last,
          validation_service, pdf, tmp_files,
          configs, BUSINESS_CONFIG, _invoices, issued, built>>

\* the variables of the business configuration and the invoice store
storeVars == <<configs, BUSINESS_CONFIG, _invoices, issued, built>>

\* the variables of packaging and compliance validation
packVars == <<validation_service, pdf, tmp_files>>

(***************************************************************************)
(* Bounds of the model.                                                    *)
(***************************************************************************)
MaxLines == 3
MaxSeq == 2

(***************************************************************************)
(* Decimal arithmetic.                                                     *)
(***************************************************************************)
\* Decimal('0.01') in amount units
TOLERANCE == 1000

Abs(x) == IF x < 0 THEN -x ELSE x

RECURSIVE MapIdx(_, _)
\* the sequence <<F(1), ..., F(n)>>
MapIdx(F(_), n) == IF n = 0 THEN <<>> ELSE Append(MapIdx(F, n - 1), F(n))

\* quantity * unit_price, as an amount
Times(quantity, unit_price) == quantity * unit_price * 100

\* line_total * (vat_rate / Decimal('100')), as an amount
VatOf(line_total, vat_rate) == (line_total * vat_rate) \div 100

\* one cent, in amount units
Cent == 10 * 100

IsWholeCents(a) == a % Cent = 0

(***************************************************************************)
(* Enumerations.                                                           *)
(***************************************************************************)
CurrencyCode == {"EUR", "USD", "GBP", "CHF"}
VATCategory == {"S", "Z", "E", "AE", "AA", "AB"}
InvoiceType == {"380", "381", "383", "384"}

(***************************************************************************)
(* InvoiceLine: field constraints and validate_line_total.                 *)
(***************************************************************************)
\* validate_line_total without abs(): an overstated total is caught, an
\* understated one is not
validate_line_total_no_abs(v, has_quantity, has_unit_price, quantity, unit_price) ==
    IF has_quantity /\ has_unit_price
    THEN v - Times(quantity, unit_price) <= TOLERANCE
    ELSE TRUE

\* values: the fields validated before line_total_amount; a field that
\* failed its own constraint is absent from it.
validate_line_total(v, has_quantity, has_unit_price, quantity, unit_price) ==
    IF has_quantity /\ has_unit_price
    THEN Abs(v - Times(quantity, unit_price)) <= TOLERANCE
    ELSE TRUE

\* TRUE iff InvoiceLine(**a) constructs; FALSE iff it raises ValidationError.
InvoiceLineValid(a) ==
    LET q_ok == a.quantity > 0
        p_ok == a.unit_price >= 0
        t_ok == a.line_total_amount >= 0
                /\ validate_line_total(a.line_total_amount, q_ok, p_ok,
                                       a.quantity, a.unit_price)
        c_ok == a.vat_category \in VATCategory
        r_ok == a.vat_rate >= 0 /\ a.vat_rate <= 100
    IN  q_ok /\ p_ok /\ t_ok /\ c_ok /\ r_ok

(***************************************************************************)
(* InvoiceTotals: field constraints and the three validators.              *)
(***************************************************************************)
validate_tax_exclusive(v, has_all, line_total, allowance, charge) ==
    IF has_all
    THEN Abs(v - (line_total - allowance + charge)) <= TOLERANCE
    ELSE TRUE

\* variant of validate_tax_inclusive comparing without abs()
validate_tax_inclusive_no_abs(v, has_all, tax_exclusive, tax_total) ==
    IF has_all
    THEN v - (tax_exclusive + tax_total) <= TOLERANCE
    ELSE TRUE

validate_tax_inclusive(v, has_all, tax_exclusive, tax_total) ==
    IF has_all
    THEN Abs(v - (tax_exclusive + tax_total)) <= TOLERANCE
    ELSE TRUE

validate_payable_amount(v, has_all, tax_inclusive, prepaid) ==
    IF has_all
    THEN Abs(v - (tax_inclusive - prepaid)) <= TOLERANCE
    ELSE TRUE

\* TRUE iff InvoiceTotals(**a) constructs; FALSE iff it raises ValidationError.
InvoiceTotalsValid(a) ==
    LET lt_ok == a.line_total_amount >= 0
        al_ok == a.allowance_total_amount >= 0
        ch_ok == a.charge_total_amount >= 0
        te_ok == a.tax_exclusive_amount >= 0
                 /\ validate_tax_exclusive(a.tax_exclusive_amount,
                        lt_ok /\ al_ok /\ ch_ok, a.line_total_amount,
                        a.allowance_total_amount, a.charge_total_amount)
        tt_ok == a.tax_total_amount >= 0
        ti_ok == a.tax_inclusive_amount >= 0
                 /\ validate_tax_inclusive(a.tax_inclusive_amount,
                        te_ok /\ tt_ok, a.tax_exclusive_amount,
                        a.tax_total_amount)
        pp_ok == a.prepaid_amount >= 0
        pa_ok == a.payable_amount >= 0
                 /\ validate_payable_amount(a.payable_amount,
                        ti_ok /\ pp_ok, a.tax_inclusive_amount,
                        a.prepaid_amount)
    IN  lt_ok /\ al_ok /\ ch_ok /\ te_ok /\ tt_ok /\ ti_ok /\ pp_ok /\ pa_ok

\* InvoiceTotals(...) with the three defaulted fields left at Field(0)
InvoiceTotalsDefaults(line_total, tax_exclusive, tax_total, tax_inclusive, payable) ==
    [line_total_amount      |-> line_total,
     allowance_total_amount |-> 0,
     charge_total_amount    |-> 0,
     tax_exclusive_amount   |-> tax_exclusive,
     tax_total_amount       |-> tax_total,
     tax_inclusive_amount   |-> tax_inclusive,
     prepaid_amount         |-> 0,
     payable_amount         |-> payable]

(***************************************************************************)
(* VATBreakdown: field constraints only.                                   *)
(***************************************************************************)
VATBreakdownValid(a) ==
    /\ a.vat_category \in VATCategory
    /\ a.vat_rate >= 0 /\ a.vat_rate <= 100
    /\ a.taxable_amount >= 0
    /\ a.vat_amount >= 0

(***************************************************************************)
(* InvoiceService.calculate_totals: one pass over the lines.               *)
(***************************************************************************)
\* calculate_totals' loop with total_vat_amount = vat_amount in place of +=
RECURSIVE calculate_totals_loop_overwrite(_, _, _)
calculate_totals_loop_overwrite(lines, i, acc) ==
    IF i > Len(lines) THEN acc
    ELSE LET line == lines[i]
             line_total == Times(line.quantity, line.unit_price)
             vat_amount == VatOf(line_total, line.vat_rate)
         IN  calculate_totals_loop_overwrite(lines, i + 1,
                 <<acc[1] + line_total, vat_amount>>)

\* the for loop: acc = <<line_extension_amount, total_vat_amount>>
RECURSIVE calculate_totals_loop(_, _, _)
calculate_totals_loop(lines, i, acc) ==
    IF i > Len(lines) THEN acc
    ELSE LET line == lines[i]
             line_total == Times(line.quantity, line.unit_price)
             vat_amount == VatOf(line_total, line.vat_rate)
         IN  calculate_totals_loop(lines, i + 1,
                 <<acc[1] + line_total, acc[2] + vat_amount>>)

\* the arguments handed to InvoiceTotals(...)
calculate_totals(lines) ==
    LET acc == calculate_totals_loop(lines, 1, <<0, 0>>)
        line_extension_amount == acc[1]
        total_vat_amount == acc[2]
        tax_exclusive_amount == line_extension_amount
        tax_inclusive_amount == line_extension_amount + total_vat_amount
        payable_amount == tax_inclusive_amount
    IN  InvoiceTotalsDefaults(line_extension_amount, tax_exclusive_amount,
            total_vat_amount, tax_inclusive_amount, payable_amount)

(***************************************************************************)
(* InvoiceService._calculate_vat_breakdown: a dict keyed by                *)
(* (vat_rate, vat_category), kept in insertion order.                      *)
(***************************************************************************)
\* the dict keyed by vat_rate alone
RECURSIVE KeyIndexRateOnly(_, _, _, _)
KeyIndexRateOnly(d, rate, category, i) ==
    IF i > Len(d) THEN 0
    ELSE IF d[i].rate = rate THEN i
    ELSE KeyIndexRateOnly(d, rate, category, i + 1)

\* index of key in the dict (a sequence of entries), 0 when absent
RECURSIVE KeyIndex(_, _, _, _)
KeyIndex(d, rate, category, i) ==
    IF i > Len(d) THEN 0
    ELSE IF d[i].rate = rate /\ d[i].category = category THEN i
    ELSE KeyIndex(d, rate, category, i + 1)

\* the loop body with taxable_amount = line_total in place of +=
vat_breakdown_step_overwrite(d, line) ==
    LET line_total == Times(line.quantity, line.unit_price)
        vat_amount == VatOf(line_total, line.vat_rate)
        found == KeyIndex(d, line.vat_rate, line.vat_category, 1)
        d1 == IF found = 0
              THEN Append(d, [taxable_amount |-> 0, tax_amount |-> 0,
                              rate |-> line.vat_rate,
                              category |-> line.vat_category])
              ELSE d
        k == IF found = 0 THEN Len(d1) ELSE found
    IN  [d1 EXCEPT ![k].taxable_amount = line_total,
                   ![k].tax_amount = @ + vat_amount]

\* one iteration of the loop body
vat_breakdown_step(d, line) ==
    LET line_total == Times(line.quantity, line.unit_price)
        vat_amount == VatOf(line_total, line.vat_rate)
        found == KeyIndex(d, line.vat_rate, line.vat_category, 1)
        d1 == IF found = 0
              THEN Append(d, [taxable_amount |-> 0, tax_amount |-> 0,
                              rate |-> line.vat_rate,
                              category |-> line.vat_category])
              ELSE d
        k == IF found = 0 THEN Len(d1) ELSE found
    IN  [d1 EXCEPT ![k].taxable_amount = @ + line_total,
                   ![k].tax_amount = @ + vat_amount]

RECURSIVE vat_breakdown_loop(_, _, _)
vat_breakdown_loop(lines, i, d) ==
    IF i > Len(lines) THEN d
    ELSE vat_breakdown_loop(lines, i + 1, vat_breakdown_step(d, lines[i]))

\* the list comprehension over vat_breakdowns.values()
_calculate_vat_breakdown(lines) ==
    LET d == vat_breakdown_loop(lines, 1, <<>>)
    IN  MapIdx(LAMBDA k :
            [vat_category   |-> d[k].category,
             vat_rate       |-> d[k].rate,
             taxable_amount |-> d[k].taxable_amount,
             vat_amount     |-> d[k].tax_amount],
            Len(d))

(***************************************************************************)
(* Strings. A python str is a sequence of pieces; a piece is either a run  *)
(* of ordinary characters or one of the characters XML treats specially.   *)
(***************************************************************************)
NoText == <<>>
Lit(s) == <<s>>
\* U+000B, a control character XML 1.0 does not allow
VT == "U+000B"

\* Optional[...]: <<>> is None, <<v>> is the value v
None == <<>>
Some(v) == <<v>>
\* python truthiness of an Optional[str]
Truthy(opt) == opt # <<>> /\ opt[1] # <<>>


(***************************************************************************)
(* Party, Invoice.                                                         *)
(***************************************************************************)
Party(name, vat_number, contact_name) ==
    [name |-> name,
     address |-> [street |-> Lit("42 Avenue"), city |-> Lit("Paris"),
                  country |-> "FR"],
     tax_registration |-> vat_number,
     contact_name |-> contact_name,
     contact_phone |-> None,
     contact_email |-> None]

\* TRUE iff Invoice(**a) constructs: the enumerations, min_items=1 on both
\* lists, and every nested model valid by its own rules. The class has no
\* validator of its own: nothing relates vat_breakdown to totals.
InvoiceValid(a) ==
    /\ a.invoice_type \in InvoiceType
    /\ a.currency_code \in CurrencyCode
    /\ Len(a.invoice_lines) >= 1
    /\ \A i \in 1..Len(a.invoice_lines) : InvoiceLineValid(a.invoice_lines[i])
    /\ Len(a.vat_breakdown) >= 1
    /\ \A k \in 1..Len(a.vat_breakdown) : VATBreakdownValid(a.vat_breakdown[k])
    /\ InvoiceTotalsValid(a.totals)

(***************************************************************************)
(* InvoiceService.generate_invoice_number, create_invoice_from_request.    *)
(***************************************************************************)
\* "{seq:06d}"
Pad6(n) ==
    LET s == ToString(n)
    IN  IF n < 10 THEN "00000" \o s
        ELSE IF n < 100 THEN "0000" \o s
        ELSE IF n < 1000 THEN "000" \o s
        ELSE IF n < 10000 THEN "00" \o s
        ELSE IF n < 100000 THEN "0" \o s
        ELSE s

\* business_config.invoice_number_format = "FX-{year}-{seq:06d}"
generate_invoice_number(year, seq) == Lit("FX-" \o ToString(year) \o "-" \o Pad6(seq))

\* BusinessConfiguration(...): the fields the invoice service reads
BusinessConfiguration(company_name, street, vat_number) ==
    [company_name |-> company_name,
     legal_address |-> [street |-> street, city |-> Lit("Paris"), country |-> "FR"],
     tax_registration |-> [vat_number |-> vat_number],
     invoice_number_format |-> "FX-{year}-{seq:06d}"]

\* BusinessConfiguration(): every field at its default
DefaultConfig ==
    BusinessConfiguration(Lit("Factur-X Express SAS"), Lit("42 Avenue"),
                          Some(Lit("FR12345678901")))

\* get_business_config(): the default BusinessConfiguration
SellerFromConfig ==
    Party(Lit("Factur-X Express SAS"),
          Some([vat_number |-> Some(Lit("FR12345678901"))]), None)

\* the keyword arguments handed to Invoice(...)
create_invoice_from_request(req, seq, today) ==
    [invoice_number     |-> generate_invoice_number(today[1], seq),
     issue_date         |-> today,
     due_date           |-> req.due_date,
     invoice_type       |-> req.invoice_type,
     currency_code      |-> req.currency_code,
     seller             |-> SellerFromConfig,
     buyer              |-> req.buyer,
     invoice_lines      |-> req.invoice_lines,
     totals             |-> calculate_totals(req.invoice_lines),
     vat_breakdown      |-> _calculate_vat_breakdown(req.invoice_lines),
     order_reference    |-> req.order_reference,
     contract_reference |-> req.contract_reference,
     payment_terms      |-> req.payment_terms]

\* TRUE iff create_invoice_from_request returns (no constructor raises)
CreateSucceeds(req, seq, today) ==
    LET a == create_invoice_from_request(req, seq, today)
    IN  /\ InvoiceTotalsValid(a.totals)
        /\ \A k \in 1..Len(a.vat_breakdown) : VATBreakdownValid(a.vat_breakdown[k])
        /\ InvoiceValid(a)

(***************************************************************************)
(* XML. An element tree is the sequence of its elements in document order, *)
(* each with its depth (the root has depth 0). A name is <<prefix, local>>: *)
(* "ram:ID" is <<"ram", "ID">>, "currencyID" is <<"", "currencyID">>.      *)
(***************************************************************************)
Elem(depth, name, attrs, text) ==
    [depth |-> depth, name |-> name, attrs |-> attrs, text |-> text]
Attr(name, value) == [name |-> name, value |-> value]
rsm(l) == <<"rsm", l>>
ram(l) == <<"ram", l>>
udt(l) == <<"udt", l>>
qdt(l) == <<"qdt", l>>

RSM_URI == "urn:un:unece:uncefact:data:standard:CrossIndustryInvoice:100"
QDT_URI == "urn:un:unece:uncefact:data:standard:QualifiedDataType:100"
RAM_URI == "urn:un:unece:uncefact:data:standard:ReusableAggregateBusinessInformationEntity:100"
XS_URI == "http://www.w3.org/2001/XMLSchema"
UDT_URI == "urn:un:unece:uncefact:data:standard:UnqualifiedDataType:100"
XSI_URI == "http://www.w3.org/2001/XMLSchema-instance"

\* XMLGenerator.namespaces, in insertion order
namespaces ==
    <<[prefix |-> "rsm", uri |-> RSM_URI], [prefix |-> "qdt", uri |-> QDT_URI],
      [prefix |-> "ram", uri |-> RAM_URI], [prefix |-> "xs", uri |-> XS_URI],
      [prefix |-> "udt", uri |-> UDT_URI]>>

\* date.strftime('%Y%m%d')
Pad2(n) == IF n < 10 THEN "0" \o ToString(n) ELSE ToString(n)
strftime(d) == Lit(ToString(d[1]) \o Pad2(d[2]) \o Pad2(d[3]))

\* str(Decimal): the value written with `digits` decimal places, where
\* scale = 10^digits is the unit the model keeps the value in
RECURSIVE FracDigits(_, _)
FracDigits(r, scale) ==
    IF scale = 1 THEN ""
    ELSE ToString(r \div (scale \div 10)) \o FracDigits(r % (scale \div 10), scale \div 10)
DecStr(n, scale) == Lit(ToString(n \div scale) \o "." \o FracDigits(n % scale, scale))
AmountStr(n) == DecStr(n, 100 * Cent)
PriceStr(n) == DecStr(n, 100)
QuantityStr(n) == DecStr(n, 10)
RateStr(n) == Lit(ToString(n))

(***************************************************************************)
(* XMLGenerator: the element tree built for an invoice.                    *)
(***************************************************************************)
_add_exchange_context(invoice_) ==
    << Elem(1, rsm("ExchangedDocumentContext"), <<>>, NoText),
       Elem(2, ram("BusinessProcessSpecifiedDocumentContextParameter"), <<>>, NoText),
       Elem(3, ram("ID"), <<>>, Lit("A1")),
       Elem(2, ram("GuidelineSpecifiedDocumentContextParameter"), <<>>, NoText),
       Elem(3, ram("ID"), <<>>,
            Lit("urn:cen.eu:en16931:2017#compliant#urn:factur-x.eu:1p0:basic")) >>

_add_exchanged_document(invoice_) ==
    << Elem(1, rsm("ExchangedDocument"), <<>>, NoText),
       Elem(2, ram("ID"), <<>>, invoice_.invoice_number),
       Elem(2, ram("TypeCode"), <<>>, Lit("380")),
       Elem(2, ram("IssueDateTime"), <<>>, NoText),
       Elem(3, udt("DateTimeString"), <<Attr(<<"", "format">>, Lit("102"))>>,
            strftime(invoice_.issue_date)),
       Elem(2, ram("IncludedNote"), <<>>, NoText),
       Elem(3, ram("Content"), <<>>, Lit("Commercial Invoice")) >>

\* the line item of one InvoiceLine; InvoiceLine has no unit_code attribute
\* (its field is unit_of_measure), so getattr(line, 'unit_code', 'C62') is
\* 'C62'
_add_line_item(line) ==
    << Elem(2, ram("IncludedSupplyChainTradeLineItem"), <<>>, NoText),
       Elem(3, ram("AssociatedDocumentLineDocument"), <<>>, NoText),
       Elem(4, ram("LineID"), <<>>, line.line_id),
       Elem(3, ram("SpecifiedTradeProduct"), <<>>, NoText),
       Elem(4, ram("Name"), <<>>, line.item_name),
       Elem(3, ram("SpecifiedLineTradeAgreement"), <<>>, NoText),
       Elem(4, ram("NetPriceProductTradePrice"), <<>>, NoText),
       Elem(5, ram("ChargeAmount"), <<Attr(<<"", "currencyID">>, Lit("EUR"))>>,
            PriceStr(line.unit_price)),
       Elem(3, ram("SpecifiedLineTradeDelivery"), <<>>, NoText),
       Elem(4, ram("BilledQuantity"), <<Attr(<<"", "unitCode">>, Lit("C62"))>>,
            QuantityStr(line.quantity)),
       Elem(3, ram("SpecifiedLineTradeSettlement"), <<>>, NoText),
       Elem(4, ram("ApplicableTradeTax"), <<>>, NoText),
       Elem(5, ram("TypeCode"), <<>>, Lit("VAT")),
       Elem(5, ram("CategoryCode"), <<>>, Lit(line.vat_category)),
       Elem(5, ram("RateApplicablePercent"), <<>>, RateStr(line.vat_rate)),
       Elem(4, ram("SpecifiedTradeSettlementLineMonetarySummation"), <<>>, NoText),
       Elem(5, ram("LineTotalAmount"), <<Attr(<<"", "currencyID">>, Lit("EUR"))>>,
            AmountStr(line.line_total_amount)) >>

RECURSIVE FlatMap(_, _)
\* F applied to each element of sq, the results concatenated
FlatMap(F(_), sq) == IF sq = <<>> THEN <<>> ELSE F(Head(sq)) \o FlatMap(F, Tail(sq))

\* party_type is 'seller' or 'buyer'; party_type.upper() is given by upper_
_add_trade_party_info(depth, party, upper_) ==
    << Elem(depth, ram("ID"), <<>>, Lit(upper_ \o "_001")),
       Elem(depth, ram("Name"), <<>>, party.name),
       Elem(depth, ram("PostalTradeAddress"), <<>>, NoText) >>
    \o (IF party.address.street # NoText
        THEN <<Elem(depth + 1, ram("LineOne"), <<>>, party.address.street)>>
        ELSE <<>>)
    \o (IF party.address.city # NoText
        THEN <<Elem(depth + 1, ram("CityName"), <<>>, party.address.city)>>
        ELSE <<>>)
    \o << Elem(depth + 1, ram("CountryID"), <<>>, Lit(party.address.country)) >>
    \o (IF party.tax_registration # None /\ Truthy(party.tax_registration[1].vat_number)
        THEN << Elem(depth, ram("SpecifiedTaxRegistration"), <<>>, NoText),
                Elem(depth + 1, ram("ID"), <<Attr(<<"", "schemeID">>, Lit("VA"))>>,
                     party.tax_registration[1].vat_number[1]) >>
        ELSE <<>>)
    \o (IF Truthy(party.contact_name) \/ Truthy(party.contact_phone)
           \/ Truthy(party.contact_email)
        THEN << Elem(depth, ram("DefinedTradeContact"), <<>>, NoText) >>
             \o (IF Truthy(party.contact_name)
                 THEN <<Elem(depth + 1, ram("PersonName"), <<>>, party.contact_name[1])>>
                 ELSE <<>>)
             \o (IF Truthy(party.contact_phone)
                 THEN << Elem(depth + 1, ram("TelephoneUniversalCommunication"), <<>>, NoText),
                         Elem(depth + 2, ram("CompleteNumber"), <<>>, party.contact_phone[1]) >>
                 ELSE <<>>)
             \o (IF Truthy(party.contact_email)
                 THEN << Elem(depth + 1, ram("EmailURIUniversalCommunication"), <<>>, NoText),
                         Elem(depth + 2, ram("URIID"), <<>>, party.contact_email[1]) >>
                 ELSE <<>>)
        ELSE <<>>)

_add_header_trade_agreement(invoice_) ==
    << Elem(2, ram("ApplicableHeaderTradeAgreement"), <<>>, NoText) >>
    \o (IF Truthy(invoice_.order_reference)
        THEN <<Elem(3, ram("BuyerReference"), <<>>, invoice_.order_reference[1])>>
        ELSE <<>>)
    \o << Elem(3, ram("SellerTradeParty"), <<>>, NoText) >>
    \o _add_trade_party_info(4, invoice_.seller, "SELLER")
    \o << Elem(3, ram("BuyerTradeParty"), <<>>, NoText) >>
    \o _add_trade_party_info(4, invoice_.buyer, "BUYER")
    \o (IF Truthy(invoice_.contract_reference)
        THEN << Elem(3, ram("ContractReferencedDocument"), <<>>, NoText),
                Elem(4, ram("IssuerAssignedID"), <<>>, invoice_.contract_reference[1]) >>
        ELSE <<>>)

_add_header_trade_delivery(invoice_) ==
    << Elem(2, ram("ApplicableHeaderTradeDelivery"), <<>>, NoText),
       Elem(3, ram("ActualDeliverySupplyChainEvent"), <<>>, NoText),
       Elem(4, ram("OccurrenceDateTime"), <<>>, NoText),
       Elem(5, udt("DateTimeString"), <<Attr(<<"", "format">>, Lit("102"))>>,
            strftime(invoice_.issue_date)) >>

\* the ApplicableTradeTax block of one VATBreakdown row
header_trade_tax(row, currency) ==
    << Elem(3, ram("ApplicableTradeTax"), <<>>, NoText),
       Elem(4, ram("CalculatedAmount"), <<Attr(<<"", "currencyID">>, Lit(currency))>>,
            AmountStr(row.vat_amount)),
       Elem(4, ram("TypeCode"), <<>>, Lit("VAT")),
       Elem(4, ram("BasisAmount"), <<Attr(<<"", "currencyID">>, Lit(currency))>>,
            AmountStr(row.taxable_amount)),
       Elem(4, ram("CategoryCode"), <<>>, Lit(row.vat_category)) >>
    \o (IF row.vat_rate > 0
        THEN <<Elem(4, ram("RateApplicablePercent"), <<>>, RateStr(row.vat_rate))>>
        ELSE <<>>)

RowVatAmount(r) == r.vat_amount
RECURSIVE SumVat(_)
\* sum(vat.vat_amount for vat in invoice.vat_breakdown)
SumVat(rows) == IF rows = <<>> THEN 0 ELSE RowVatAmount(Head(rows)) + SumVat(Tail(rows))

_add_header_trade_settlement(invoice_) ==
    LET cur == invoice_.currency_code
        money(local, amount) ==
            Elem(4, ram(local), <<Attr(<<"", "currencyID">>, Lit(cur))>>, AmountStr(amount))
        tax(row) == header_trade_tax(row, cur)
    IN  << Elem(2, ram("ApplicableHeaderTradeSettlement"), <<>>, NoText),
           Elem(3, ram("InvoiceCurrencyCode"), <<>>, Lit(cur)) >>
        \o FlatMap(tax, invoice_.vat_breakdown)
        \o (IF invoice_.payment_terms # None
            THEN << Elem(3, ram("SpecifiedTradePaymentTerms"), <<>>, NoText) >>
                 \o (IF Truthy(invoice_.payment_terms[1].payment_terms_description)
                     THEN <<Elem(4, ram("Description"), <<>>,
                                 invoice_.payment_terms[1].payment_terms_description[1])>>
                     ELSE <<>>)
                 \o (IF invoice_.due_date # None
                     THEN << Elem(4, ram("DueDateDateTime"), <<>>, NoText),
                             Elem(5, udt("DateTimeString"),
                                  <<Attr(<<"", "format">>, Lit("102"))>>,
                                  strftime(invoice_.due_date[1])) >>
                     ELSE <<>>)
            ELSE <<>>)
        \o << Elem(3, ram("SpecifiedTradeSettlementHeaderMonetarySummation"), <<>>, NoText),
              money("LineTotalAmount", invoice_.totals.line_total_amount),
              money("TaxBasisTotalAmount", invoice_.totals.tax_exclusive_amount),
              money("TaxTotalAmount", SumVat(invoice_.vat_breakdown)),
              money("GrandTotalAmount", invoice_.totals.tax_inclusive_amount),
              money("DuePayableAmount", invoice_.totals.payable_amount),
              Elem(3, ram("InvoiceReferencedDocument"), <<>>, NoText),
              Elem(4, ram("IssuerAssignedID"), <<>>, invoice_.invoice_number),
              Elem(4, ram("FormattedIssueDateTime"), <<>>, NoText),
              Elem(5, qdt("DateTimeString"), <<Attr(<<"", "format">>, Lit("102"))>>,
                   strftime(invoice_.issue_date)) >>

_add_supply_chain_trade_transaction(invoice_) ==
    << Elem(1, rsm("SupplyChainTradeTransaction"), <<>>, NoText) >>
    \o FlatMap(_add_line_item, invoice_.invoice_lines)
    \o _add_header_trade_agreement(invoice_)
    \o _add_header_trade_delivery(invoice_)
    \o _add_header_trade_settlement(invoice_)

\* the root element with its xmlns:* and xsi:schemaLocation attributes
RootElement ==
    Elem(0, rsm("CrossIndustryInvoice"),
         MapIdx(LAMBDA i :
             Attr(<<"xmlns", namespaces[i].prefix>>, Lit(namespaces[i].uri)),
             Len(namespaces))
         \o << Attr(<<"xmlns", "xsi">>, Lit(XSI_URI)),
               Attr(<<"xsi", "schemaLocation">>,
                    Lit(RSM_URI \o " CrossIndustryInvoice_100pD16B.xsd")) >>,
         NoText)

\* the tree generate_cii_xml builds before it serialises it
BuildTree(invoice_) ==
    << RootElement >>
    \o _add_exchange_context(invoice_)
    \o _add_exchanged_document(invoice_)
    \o _add_supply_chain_trade_transaction(invoice_)

(***************************************************************************)
(* Serialising and parsing. An XML text is [closed, nodes]: closed is      *)
(* FALSE when a start tag lacks its end tag, nodes are the elements as     *)
(* written, their character data and attribute values in escaped form.     *)
(***************************************************************************)
\* xml.etree _escape_cdata / minidom _write_data on one piece
EscapePiece(c) ==
    IF c = "&" THEN "&amp;"
    ELSE IF c = "<" THEN "&lt;"
    ELSE IF c = ">" THEN "&gt;"
    ELSE c
Escape(t) == MapIdx(LAMBDA i : EscapePiece(t[i]), Len(t))

\* what the parser makes of one piece of character data
UnescapePiece(c) ==
    IF c = "&amp;" THEN "&"
    ELSE IF c = "&lt;" THEN "<"
    ELSE IF c = "&gt;" THEN ">"
    ELSE c
Unescape(t) == MapIdx(LAMBDA i : UnescapePiece(t[i]), Len(t))

\* character data expat accepts: no bare & or <, no forbidden control character
CharDataOk(t) == \A i \in 1..Len(t) : t[i] \notin {"&", "<", VT}

EscapeAttrs(attrs) ==
    MapIdx(LAMBDA i : Attr(attrs[i].name, Escape(attrs[i].value)), Len(attrs))
UnescapeAttrs(attrs) ==
    MapIdx(LAMBDA i : Attr(attrs[i].name, Unescape(attrs[i].value)), Len(attrs))

\* xml.etree.ElementTree.tostring(root, encoding='unicode')
tostring(tree) ==
    [closed |-> TRUE,
     nodes |-> MapIdx(LAMBDA i :
                   Elem(tree[i].depth, tree[i].name,
                        EscapeAttrs(tree[i].attrs), Escape(tree[i].text)),
                   Len(tree))]

\* the elements form one tree in document order
TreeShapeOk(nodes) ==
    /\ nodes # <<>>
    /\ nodes[1].depth = 0
    /\ \A i \in 2..Len(nodes) :
          nodes[i].depth >= 1 /\ nodes[i].depth <= nodes[i - 1].depth + 1

\* the xmlns:prefix declarations an element carries itself
Declares(node, prefix) ==
    \E a \in 1..Len(node.attrs) :
        node.attrs[a].name = <<"xmlns", prefix>> /\ node.attrs[a].value # NoText
DeclaredUri(node, prefix) ==
    LET a == CHOOSE a \in 1..Len(node.attrs) : node.attrs[a].name = <<"xmlns", prefix>>
    IN  node.attrs[a].value[1]

RECURSIVE ScanUp(_, _, _, _)
\* walks back from element j through the elements of depth <= depth, which
\* are the element itself and its ancestors, nearest first
ScanUp(nodes, j, depth, prefix) ==
    IF j = 0 THEN None
    ELSE IF nodes[j].depth > depth THEN ScanUp(nodes, j - 1, depth, prefix)
    ELSE IF Declares(nodes[j], prefix) THEN Some(DeclaredUri(nodes[j], prefix))
    ELSE ScanUp(nodes, j - 1, nodes[j].depth - 1, prefix)

\* the namespace bound to prefix at element i: None when unbound
ResolvePrefix(nodes, i, prefix) == ScanUp(nodes, i, nodes[i].depth, prefix)

\* every prefix used by an element or attribute name is bound
PrefixesBound(nodes) ==
    \A i \in 1..Len(nodes) :
        /\ nodes[i].name[1] # "" => ResolvePrefix(nodes, i, nodes[i].name[1]) # None
        /\ \A a \in 1..Len(nodes[i].attrs) :
              nodes[i].attrs[a].name[1] \notin {"", "xmlns"}
                 => ResolvePrefix(nodes, i, nodes[i].attrs[a].name[1]) # None

\* TRUE iff expat (namespace-aware) parses the text
WellFormed(text) ==
    /\ text.closed
    /\ TreeShapeOk(text.nodes)
    /\ \A i \in 1..Len(text.nodes) :
          /\ CharDataOk(text.nodes[i].text)
          /\ \A a \in 1..Len(text.nodes[i].attrs) : CharDataOk(text.nodes[i].attrs[a].value)
    /\ PrefixesBound(text.nodes)

\* minidom.parseString: the DOM keeps the names as written
parseString(text) ==
    MapIdx(LAMBDA i :
        Elem(text.nodes[i].depth, text.nodes[i].name,
             UnescapeAttrs(text.nodes[i].attrs), Unescape(text.nodes[i].text)),
        Len(text.nodes))

\* indentation written around child elements
WS == " "
HasChildren(nodes, i) == i < Len(nodes) /\ nodes[i + 1].depth > nodes[i].depth

\* Document.toprettyxml(indent='  '): re-escaped, and every element that
\* holds elements gets indentation as character data
toprettyxml(dom) ==
    [closed |-> TRUE,
     nodes |-> MapIdx(LAMBDA i :
                   Elem(dom[i].depth, dom[i].name, EscapeAttrs(dom[i].attrs),
                        IF HasChildren(dom, i) THEN <<WS>> \o Escape(dom[i].text)
                        ELSE Escape(dom[i].text)),
                   Len(dom))]

\* XMLGenerator.generate_cii_xml: [raised, text]
generate_cii_xml(invoice_) ==
    LET rough_string == tostring(BuildTree(invoice_))
    IN  IF WellFormed(rough_string)
        THEN [raised |-> "none", text |-> Some(toprettyxml(parseString(rough_string)))]
        ELSE [raised |-> "ExpatError", text |-> None]

\* xml.etree.ElementTree.fromstring, after a successful parse: every
\* element under its namespace, "{uri}local" as <<uri, local>>
fromstring(text) ==
    MapIdx(LAMBDA i :
        [depth |-> text.nodes[i].depth,
         tag |-> IF text.nodes[i].name[1] = ""
                 THEN <<"", text.nodes[i].name[2]>>
                 ELSE <<ResolvePrefix(text.nodes, i, text.nodes[i].name[1])[1],
                        text.nodes[i].name[2]>>,
         attrs |-> UnescapeAttrs(text.nodes[i].attrs),
         text |-> Unescape(text.nodes[i].text)],
        Len(text.nodes))

\* the uri XMLGenerator.namespaces gives a prefix
NamespaceOf(prefix) ==
    LET i == CHOOSE i \in 1..Len(namespaces) : namespaces[i].prefix = prefix
    IN  namespaces[i].uri

\* variant of find that also looks at the root element
find_or_self(root, path) ==
    \E i \in 1..Len(root) : root[i].tag = <<NamespaceOf(path[1]), path[2]>>

\* root.find('.//prefix:local', self.namespaces) is not None: the elements
\* below the root are searched, the root itself is not
find(root, path) ==
    \E i \in 2..Len(root) : root[i].tag = <<NamespaceOf(path[1]), path[2]>>

required_elements ==
    << <<"rsm", "ExchangedDocumentContext">>,
       <<"rsm", "SupplyChainTradeTransaction">>,
       <<"ram", "SellerTradeParty">>,
       <<"ram", "BuyerTradeParty">> >>

PathStr(path) == ".//" \o path[1] \o ":" \o path[2]

RECURSIVE validate_loop(_, _, _)
\* the for loop over required_elements
validate_loop(root, k, result) ==
    IF k > Len(required_elements) THEN result
    ELSE IF ~find(root, required_elements[k])
         THEN validate_loop(root, k + 1,
                 [result EXCEPT
                    !.errors = Append(@, "Missing required element: "
                                         \o PathStr(required_elements[k])),
                    !.is_valid = FALSE])
         ELSE validate_loop(root, k + 1, result)

\* XMLGenerator.validate_xml_structure
validate_xml_structure(xml_content) ==
    IF WellFormed(xml_content)
    THEN validate_loop(fromstring(xml_content), 1,
             [is_valid |-> TRUE, errors |-> <<>>, warnings |-> <<>>])
    ELSE [is_valid |-> FALSE, errors |-> <<"XML parsing error">>, warnings |-> <<>>]

(***************************************************************************)
(* Inputs of the calculator specification.                                 *)
(***************************************************************************)
\* the grid of ordinary lines: quantity 0.5 / 1, unit price 0.01 / 100.00
Quantities == {5, 10}
UnitPrices == {1, 10000}
RateCategories == {<<20, "S">>, <<10, "AA">>}
Today == <<2024, 1, 15>>
SampleBuyer == Party(Lit("ACME Corporation"), None, None)

LineArg(q, p, offset, rate, category) ==
    [line_id |-> Lit("1"), item_name |-> Lit("Service"),
     quantity |-> q, unit_price |-> p,
     line_total_amount |-> Times(q, p) + offset,
     vat_rate |-> rate, vat_category |-> category, unit_of_measure |-> "C62"]

\* the grid, with line_total_amount = quantity * unit_price
GridLines ==
    {LineArg(q, p, 0, rc[1], rc[2]) :
        q \in Quantities, p \in UnitPrices, rc \in RateCategories}

\* one field pushed to, or past, the edge of what InvoiceLine accepts
EdgeLines ==
    {LineArg(q, 10000, 0, 20, "S") : q \in {0 - 10, 0}}
    \cup {LineArg(10, 0 - 1, 0, 20, "S")}
    \cup {LineArg(10, 10000, o, 20, "S") :
            o \in {0 - (TOLERANCE + 1), 0 - TOLERANCE, TOLERANCE, TOLERANCE + 1}}
    \cup {LineArg(5, 1, 0 - TOLERANCE, 20, "S")}
    \cup {LineArg(10, 10000, 0, r, "Z") : r \in {0 - 1, 0, 101}}
    \cup {LineArg(10, 10000, 0, 20, "AA")}

LineArgs == GridLines \cup EdgeLines

Request(lines) ==
    [due_date |-> None, invoice_type |-> "380", currency_code |-> "EUR",
     buyer |-> SampleBuyer, invoice_lines |-> lines,
     order_reference |-> None, contract_reference |-> None,
     payment_terms |-> None]

(***************************************************************************)
(* Calculator specification: lines are constructed one by one into a       *)
(* request, the request is turned into an invoice.                         *)
(***************************************************************************)
Init ==
    /\ invoice_lines = <<>>
    /\ _sequence_counter = 1
    /\ invoice = <<>>
    /\ totals = <<>>
    /\ xml = <<>>
    /\ report = <<>>
    /\ error = "none"
    /\ last = [op |-> "init"]
    /\ validation_service = <<>>
    /\ pdf = <<>>
    /\ tmp_files = 0
    /\ configs = <<DefaultConfig>>
    /\ BUSINESS_CONFIG = 1
    /\ _invoices = <<>>
    /\ issued = <<>>
    /\ built = <<>>

\* InvoiceLine(**a), appended to the request's invoice_lines when it constructs
NewInvoiceLine(a) ==
    /\ _sequence_counter < MaxSeq
    /\ Len(invoice_lines) < MaxLines
    /\ IF InvoiceLineValid(a)
       THEN /\ invoice_lines' = Append(invoice_lines, a)
            /\ error' = "none"
       ELSE /\ invoice_lines' = invoice_lines
            /\ error' = "ValidationError"
    /\ last' = [op |-> "InvoiceLine", line |-> a]
    /\ invoice' = <<>>
    /\ totals' = <<>>
    /\ UNCHANGED <<_sequence_counter, xml, report, packVars, storeVars>>

\* InvoiceService.create_invoice_from_request(InvoiceCreateRequest(...))
CreateInvoiceFromRequest ==
    /\ _sequence_counter < MaxSeq
    /\ invoice_lines # <<>>
    /\ LET req == Request(invoice_lines)
           a == create_invoice_from_request(req, _sequence_counter, Today)
       IN  /\ _sequence_counter' = _sequence_counter + 1
           /\ IF CreateSucceeds(req, _sequence_counter, Today)
              THEN /\ invoice' = <<a>>
                   /\ totals' = <<a.totals>>
                   /\ error' = "none"
              ELSE /\ invoice' = <<>>
                   /\ totals' = <<>>
                   /\ error' = "ValidationError"
           /\ last' = [op |-> "create_invoice_from_request", lines |-> invoice_lines]
    /\ invoice_lines' = <<>>
    /\ UNCHANGED <<xml, report, packVars, storeVars>>

Next ==
    \/ \E a \in LineArgs : NewInvoiceLine(a)
    \/ CreateInvoiceFromRequest

Spec == Init /\ [][Next]_vars

(***************************************************************************)
(* Domain-model specification: InvoiceTotals and Invoice constructed       *)
(* directly by a caller, from arbitrary arguments.                         *)
(***************************************************************************)
\* offsets of the three derived amounts from what the validators expect:
\* one relation at a time pushed to and past the tolerance, and all three
\* at the tolerance together
TotalsOffsets ==
    LET edge == {0 - (TOLERANCE + 1), 0 - TOLERANCE, 0, TOLERANCE, TOLERANCE + 1}
    IN  {<<o, 0, 0>> : o \in edge} \cup {<<0, o, 0>> : o \in edge}
        \cup {<<0, 0, o>> : o \in edge} \cup {<<TOLERANCE, TOLERANCE, TOLERANCE>>}

TotalsArg(line_total, allowance, charge, tax_total, prepaid, o) ==
    LET tax_exclusive == line_total - allowance + charge + o[1]
        tax_inclusive == tax_exclusive + tax_total + o[2]
        payable == tax_inclusive - prepaid + o[3]
    IN  [line_total_amount      |-> line_total,
         allowance_total_amount |-> allowance,
         charge_total_amount    |-> charge,
         tax_exclusive_amount   |-> tax_exclusive,
         tax_total_amount       |-> tax_total,
         tax_inclusive_amount   |-> tax_inclusive,
         prepaid_amount         |-> prepaid,
         payable_amount         |-> payable]

TotalsArgs ==
    {TotalsArg(100 * 100 * Cent, al, ch, 20 * 100 * Cent, pp, o) :
        al \in {0 - Cent, 0, 10 * 100 * Cent}, ch \in {0, 5 * 100 * Cent},
        pp \in {0, 20 * 100 * Cent}, o \in TotalsOffsets}

BaseLine == LineArg(10, 10000, 0, 20, "S")
ZeroRatedLine == LineArg(10, 10000, 0, 0, "Z")
ModelLineSeqs == {<<BaseLine>>, <<BaseLine, ZeroRatedLine>>}
\* a line billed in hours
HourLine == [BaseLine EXCEPT !.unit_of_measure = "HUR"]

Row(category, rate, taxable, vat) ==
    [vat_category |-> category, vat_rate |-> rate,
     taxable_amount |-> taxable, vat_amount |-> vat]
\* breakdowns a caller may pass: the one of a 100.00 line at 20 %, one that
\* understates both amounts, one with a negative amount, none at all
ModelBreakdowns ==
    { <<Row("S", 20, 100 * 100 * Cent, 20 * 100 * Cent)>>,
      <<Row("S", 20, 50 * 100 * Cent, 10 * 100 * Cent)>>,
      <<Row("S", 20, 100 * 100 * Cent, 20 * 100 * Cent), Row("Z", 0, 100 * 100 * Cent, 0)>>,
      <<Row("S", 20, 0 - Cent, 0)>>,
      <<>> }

InvoiceArg(number, type, currency, seller, buyer, lines, breakdown, t, pay, due, ord, con) ==
    [invoice_number     |-> number,
     issue_date         |-> Today,
     due_date           |-> due,
     invoice_type       |-> type,
     currency_code      |-> currency,
     seller             |-> seller,
     buyer              |-> buyer,
     invoice_lines      |-> lines,
     totals             |-> t,
     vat_breakdown      |-> breakdown,
     order_reference    |-> ord,
     contract_reference |-> con,
     payment_terms      |-> pay]

\* InvoiceTotals(**a)
NewInvoiceTotals(a) ==
    /\ last.op = "init"
    /\ IF InvoiceTotalsValid(a)
       THEN totals' = <<a>> /\ error' = "none"
       ELSE totals' = <<>> /\ error' = "ValidationError"
    /\ last' = [op |-> "InvoiceTotals", args |-> a]
    /\ UNCHANGED <<invoice_lines, _sequence_counter, invoice, xml, report, packVars, storeVars>>

\* Invoice(**a)
NewInvoice(a) ==
    /\ invoice = <<>>
    /\ xml = <<>>
    /\ IF InvoiceValid(a)
       THEN invoice' = <<a>> /\ error' = "none"
       ELSE invoice' = <<>> /\ error' = "ValidationError"
    /\ last' = [op |-> "Invoice", args |-> a]
    /\ UNCHANGED <<invoice_lines, _sequence_counter, totals, xml, report, packVars, storeVars>>

\* Invoice(...) around the InvoiceTotals object built before
NewInvoiceWithTotals ==
    /\ last.op = "InvoiceTotals"
    /\ totals # <<>>
    /\ \E lines \in ModelLineSeqs, bd \in ModelBreakdowns :
          NewInvoice(InvoiceArg(Lit("MIN-001"), "380", "EUR", SellerFromConfig,
                                SampleBuyer, lines, bd, totals[1],
                                None, None, None, None))

NextModel ==
    \/ \E a \in TotalsArgs : NewInvoiceTotals(a)
    \/ NewInvoiceWithTotals

SpecModel == Init /\ [][NextModel]_vars

(***************************************************************************)
(* Codec specification: an Invoice is encoded and the result validated; or *)
(* validate_xml_structure is handed a text from elsewhere.                 *)
(***************************************************************************)
TextSamples == {Lit("ACME Corporation"), <<"R", "&", "D", " ", "<", "x", ">">>, <<"A", VT, "B">>}
OptionalTexts == {None, Some(NoText), Some(Lit("REF-2024-001"))}
TaxRegistrations == {None, Some([vat_number |-> None]),
                     Some([vat_number |-> Some(Lit("FR98765432109"))])}
\* <<payment_terms, due_date>>
PaymentChoices ==
    { <<None, None>>, <<None, Some(<<2024, 2, 14>>)>>,
      <<Some([payment_terms_description |-> None]), None>>,
      <<Some([payment_terms_description |-> Some(Lit("Net 30 days"))]),
        Some(<<2024, 2, 14>>)>> }

CodecInvoice(type, cur, name, lines, tax, contact, pay, ord, con) ==
    InvoiceArg(Lit("MIN-001"), type, cur, SellerFromConfig,
               Party(name, tax, contact), lines,
               _calculate_vat_breakdown(lines), calculate_totals(lines),
               pay[1], pay[2], ord, con)

\* every type, currency, buyer name and number of lines without optional
\* fields; and every combination of optional fields on a USD invoice
CodecInvoices ==
    {CodecInvoice(type, cur, name, lines, None, None, <<None, None>>, None, None) :
        type \in InvoiceType, cur \in CurrencyCode, name \in TextSamples,
        lines \in ModelLineSeqs}
    \cup
    {CodecInvoice("380", "USD", Lit("ACME Corporation"), <<BaseLine>>,
                  tax, contact, pay, ord, con) :
        tax \in TaxRegistrations, contact \in {None, Some(Lit("Jane Doe"))},
        pay \in PaymentChoices, ord \in OptionalTexts,
        con \in {None, Some(Lit("CT-7"))}}
    \cup
    \* a line billed in hours; and a breakdown whose VAT is not the totals'
    { CodecInvoice("380", "EUR", Lit("ACME Corporation"), <<HourLine>>,
                   None, None, <<None, None>>, None, None),
      [CodecInvoice("380", "EUR", Lit("ACME Corporation"), <<BaseLine>>,
                    None, None, <<None, None>>, None, None)
          EXCEPT !.vat_breakdown = <<Row("S", 20, 50 * 100 * Cent, 10 * 100 * Cent)>>] }

\* texts handed to validate_xml_structure from elsewhere
Decls(kind) ==
    IF kind = "std"
    THEN <<Attr(<<"xmlns", "rsm">>, Lit(RSM_URI)), Attr(<<"xmlns", "ram">>, Lit(RAM_URI))>>
    ELSE IF kind = "alias"
    THEN <<Attr(<<"xmlns", "a">>, Lit(RSM_URI)), Attr(<<"xmlns", "b">>, Lit(RAM_URI))>>
    ELSE IF kind = "swapped"
    THEN <<Attr(<<"xmlns", "rsm">>, Lit(RAM_URI)), Attr(<<"xmlns", "ram">>, Lit(RSM_URI))>>
    ELSE <<>>
\* the prefix a document of this kind writes for the rsm / ram namespace
RsmPrefix(kind) == IF kind = "alias" THEN "a" ELSE "rsm"
RamPrefix(kind) == IF kind = "alias" THEN "b" ELSE "ram"

\* a document whose root is root_local, holding the anchors of `present`
\* (seller and buyer inside the transaction when there is one)
Document(root_local, present, kind, closed) ==
    LET r == RsmPrefix(kind)
        m == RamPrefix(kind)
        inner == IF 2 \in present THEN 2 ELSE 1
    IN  [closed |-> closed,
         nodes |->
            << Elem(0, <<r, root_local>>, Decls(kind), NoText) >>
            \o (IF 1 \in present
                THEN <<Elem(1, <<r, "ExchangedDocumentContext">>, <<>>, NoText)>> ELSE <<>>)
            \o (IF 2 \in present
                THEN <<Elem(1, <<r, "SupplyChainTradeTransaction">>, <<>>, NoText)>> ELSE <<>>)
            \o (IF 3 \in present
                THEN <<Elem(inner, <<m, "SellerTradeParty">>, <<>>, NoText)>> ELSE <<>>)
            \o (IF 4 \in present
                THEN <<Elem(inner, <<m, "BuyerTradeParty">>, <<>>, NoText)>> ELSE <<>>)]

ReceivedTexts ==
    {Document(root, present, kind, closed) :
        root \in {"CrossIndustryInvoice", "ExchangedDocumentContext"},
        present \in SUBSET (1..4),
        kind \in {"std", "alias", "swapped", "unbound"},
        closed \in BOOLEAN}
    \cup { [closed |-> TRUE, nodes |-> <<>>],
           [closed |-> TRUE,
            nodes |-> <<Elem(0, <<"", "invalid">>, <<>>, Lit("not a valid factur-x xml"))>>],
           [closed |-> FALSE,
            nodes |-> <<Elem(0, <<"", "invalid">>, <<>>, Lit("not closed"))>>] }

\* Invoice(**a) by a caller of the codec
NewCodecInvoice ==
    /\ last.op = "init"
    /\ \E a \in CodecInvoices : NewInvoice(a)

\* XMLGenerator.generate_cii_xml(invoice)
GenerateCiiXml ==
    /\ last.op = "Invoice"
    /\ invoice # <<>>
    /\ LET r == generate_cii_xml(invoice[1])
       IN  xml' = r.text /\ error' = r.raised
    /\ last' = [op |-> "generate_cii_xml"]
    /\ UNCHANGED <<invoice_lines, _sequence_counter, invoice, totals, report, packVars, storeVars>>

\* a text arrives from outside
ReceiveXml(text) ==
    /\ last.op = "init"
    /\ xml' = <<text>>
    /\ last' = [op |-> "receive"]
    /\ UNCHANGED <<invoice_lines, _sequence_counter, invoice, totals, report, error, packVars, storeVars>>

\* XMLGenerator.validate_xml_structure(xml_content)
ValidateXmlStructure ==
    /\ last.op \in {"generate_cii_xml", "receive"}
    /\ xml # <<>>
    /\ report' = <<validate_xml_structure(xml[1])>>
    /\ error' = "none"
    /\ last' = [op |-> "validate_xml_structure", of |-> last.op]
    /\ UNCHANGED <<invoice_lines, _sequence_counter, invoice, totals, xml, packVars, storeVars>>

NextCodec ==
    \/ NewCodecInvoice
    \/ GenerateCiiXml
    \/ \E text \in ReceivedTexts : ReceiveXml(text)
    \/ ValidateXmlStructure

SpecCodec == Init /\ [][NextCodec]_vars

(***************************************************************************)
(* Properties of the calculator specification.                             *)
(***************************************************************************)
RECURSIVE SumSeq(_, _)
\* sum of F over the elements of a sequence
SumSeq(F(_), sq) == IF sq = <<>> THEN 0 ELSE F(Head(sq)) + SumSeq(F, Tail(sq))

LineNet(l) == Times(l.quantity, l.unit_price)
\* q * p * r / 100 in amount units: (q/10) * (p/100) * (r/100) * 10^5
LineVat(l) == l.quantity * l.unit_price * l.vat_rate
RowTaxable(r) == r.taxable_amount
RowVat(r) == r.vat_amount

LineInvariant(l) ==
    /\ l.quantity > 0
    /\ l.unit_price >= 0
    /\ Abs(l.line_total_amount - l.quantity * l.unit_price * 100) <= TOLERANCE

Created == last.op = "create_invoice_from_request"

C3_TotalsAreSums ==
    Created =>
        /\ error = "none"
        /\ totals # <<>>
        /\ LET t == totals[1]
               net == SumSeq(LineNet, last.lines)
               vat == SumSeq(LineVat, last.lines)
           IN  /\ t.line_total_amount = net
               /\ t.tax_exclusive_amount = net
               /\ t.tax_total_amount = vat
               /\ t.tax_inclusive_amount = t.tax_exclusive_amount + t.tax_total_amount
               /\ t.payable_amount = t.tax_inclusive_amount
               /\ t.allowance_total_amount = 0
               /\ t.charge_total_amount = 0
               /\ t.prepaid_amount = 0
               /\ (Len(last.lines) = 1 /\ last.lines[1].quantity = 10
                   /\ last.lines[1].unit_price = 10000
                   /\ last.lines[1].vat_rate = 20)
                     => (/\ t.tax_exclusive_amount = 100 * 100 * Cent
                         /\ t.tax_total_amount = 20 * 100 * Cent
                         /\ t.tax_inclusive_amount = 120 * 100 * Cent
                         /\ t.payable_amount = 120 * 100 * Cent)

\* C3 witness: totals of a three-line request with two different rates.
C3_Witness ==
    /\ Created /\ totals # <<>>
    /\ Len(last.lines) = 3
    /\ last.lines[1].vat_rate # last.lines[2].vat_rate
    /\ last.lines[3].vat_rate = 20
    /\ totals[1].tax_total_amount > 0

\* C4: in every invoice built by create_invoice_from_request the taxable
\* amounts of the VAT breakdown sum to totals.tax_exclusive_amount and the
\* VAT amounts to totals.tax_total_amount, each within 0.01.
C4_BreakdownMatchesTotals ==
    Created =>
        /\ invoice # <<>>
        /\ Abs(SumSeq(RowTaxable, invoice[1].vat_breakdown)
               - invoice[1].totals.tax_exclusive_amount) <= TOLERANCE
        /\ Abs(SumSeq(RowVat, invoice[1].vat_breakdown)
               - invoice[1].totals.tax_total_amount) <= TOLERANCE

\* C4 witness: an invoice of three lines whose breakdown has two rows, the
\* first of them fed by two lines.
C4_Witness ==
    /\ Created /\ invoice # <<>>
    /\ Len(invoice[1].invoice_lines) = 3
    /\ Len(invoice[1].vat_breakdown) = 2
    /\ invoice[1].invoice_lines[1].vat_rate = invoice[1].invoice_lines[3].vat_rate
    /\ invoice[1].invoice_lines[1].vat_category = invoice[1].invoice_lines[3].vat_category

KeyOf(x) == <<x.vat_rate, x.vat_category>>
\* position of the first line carrying key k
FirstLine(lines, k) == CHOOSE i \in 1..Len(lines) :
    KeyOf(lines[i]) = k /\ \A j \in 1..(i - 1) : KeyOf(lines[j]) # k
\* the lines carrying key k
RECURSIVE LinesOf(_, _)
LinesOf(lines, k) ==
    IF lines = <<>> THEN <<>>
    ELSE IF KeyOf(Head(lines)) = k
         THEN <<Head(lines)>> \o LinesOf(Tail(lines), k)
         ELSE LinesOf(Tail(lines), k)

\* C6: the breakdown has exactly one row per distinct (vat_rate,
\* vat_category) pair of the lines, in order of the first line carrying the
\* pair, each row summing exactly the lines of its pair; a 20 % S line
\* followed by a 10 % AA line gives two rows in that order.
C6_BreakdownGrouping ==
    (Created /\ invoice # <<>>) =>
        LET bd == invoice[1].vat_breakdown
            lines == invoice[1].invoice_lines
        IN  /\ {KeyOf(bd[i]) : i \in 1..Len(bd)} = {KeyOf(lines[i]) : i \in 1..Len(lines)}
            /\ \A i, j \in 1..Len(bd) : i < j =>
                  /\ KeyOf(bd[i]) # KeyOf(bd[j])
                  /\ FirstLine(lines, KeyOf(bd[i])) < FirstLine(lines, KeyOf(bd[j]))
            /\ \A i \in 1..Len(bd) :
                  /\ bd[i].taxable_amount = SumSeq(LineNet, LinesOf(lines, KeyOf(bd[i])))
                  /\ bd[i].vat_amount = SumSeq(LineVat, LinesOf(lines, KeyOf(bd[i])))
            /\ (Len(lines) = 2 /\ KeyOf(lines[1]) = <<20, "S">>
                /\ KeyOf(lines[2]) = <<10, "AA">>)
                  => (Len(bd) = 2 /\ KeyOf(bd[1]) = <<20, "S">>
                      /\ KeyOf(bd[2]) = <<10, "AA">>)

\* C6 witness: lines 20 % S, 20 % AA, 20 % S give the rows 20 % S, 20 % AA:
\* same rate, two categories, the first row fed by lines 1 and 3.
C6_Witness ==
    /\ Created /\ invoice # <<>>
    /\ Len(invoice[1].invoice_lines) = 3
    /\ KeyOf(invoice[1].invoice_lines[1]) = <<20, "S">>
    /\ KeyOf(invoice[1].invoice_lines[2]) = <<20, "AA">>
    /\ KeyOf(invoice[1].invoice_lines[3]) = <<20, "S">>
    /\ Len(invoice[1].vat_breakdown) = 2
    /\ KeyOf(invoice[1].vat_breakdown[1]) = <<20, "S">>

\* C7: every amount the calculator places in the header totals and in the
\* VAT breakdown is a whole number of cents.
C7_WholeCents ==
    (Created /\ invoice # <<>>) =>
        LET t == invoice[1].totals
            bd == invoice[1].vat_breakdown
        IN  /\ IsWholeCents(t.line_total_amount)
            /\ IsWholeCents(t.tax_exclusive_amount)
            /\ IsWholeCents(t.tax_total_amount)
            /\ IsWholeCents(t.tax_inclusive_amount)
            /\ IsWholeCents(t.payable_amount)
            /\ \A i \in 1..Len(bd) :
                  IsWholeCents(bd[i].taxable_amount) /\ IsWholeCents(bd[i].vat_amount)

(***************************************************************************)
(* Properties of the domain-model specification.                           *)
(***************************************************************************)
TotalsInvariant(t) ==
    /\ Abs(t.tax_exclusive_amount
           - (t.line_total_amount - t.allowance_total_amount + t.charge_total_amount))
          <= TOLERANCE
    /\ Abs(t.tax_inclusive_amount - (t.tax_exclusive_amount + t.tax_total_amount))
          <= TOLERANCE
    /\ Abs(t.payable_amount - (t.tax_inclusive_amount - t.prepaid_amount))
          <= TOLERANCE

\* C2: every constructed InvoiceTotals satisfies, each within 0.01,
\* tax_exclusive = line_total - allowance + charge, tax_inclusive =
\* tax_exclusive + tax_total and payable = tax_inclusive - prepaid; an input
\* violating one of them raises a validation error and produces no object;
\* an accepted input is stored as given, never clamped or corrected.
C2_TotalsInvariant ==
    /\ totals # <<>> => TotalsInvariant(totals[1])
    /\ invoice # <<>> => TotalsInvariant(invoice[1].totals)
    /\ (last.op = "InvoiceTotals" /\ ~TotalsInvariant(last.args))
          => (error = "ValidationError" /\ totals = <<>>)
    /\ (last.op = "InvoiceTotals" /\ error = "none") => totals = <<last.args>>
    /\ (last.op = "InvoiceTotals" /\ error # "none") => totals = <<>>

\* C2 witness: totals with an allowance, a charge and a prepayment, each of
\* the three relations off by exactly 0.01, constructed unchanged.
C2_Witness ==
    /\ last.op = "InvoiceTotals"
    /\ error = "none"
    /\ totals = <<last.args>>
    /\ last.args.allowance_total_amount > 0
    /\ last.args.charge_total_amount > 0
    /\ last.args.prepaid_amount > 0
    /\ last.args.tax_exclusive_amount
          - (last.args.line_total_amount - last.args.allowance_total_amount
             + last.args.charge_total_amount) = TOLERANCE
    /\ last.args.tax_inclusive_amount
          - (last.args.tax_exclusive_amount + last.args.tax_total_amount) = TOLERANCE
    /\ last.args.payable_amount
          - (last.args.tax_inclusive_amount - last.args.prepaid_amount) = TOLERANCE

BreakdownInvariant(a) ==
    /\ Abs(SumSeq(RowTaxable, a.vat_breakdown) - a.totals.tax_exclusive_amount)
          <= TOLERANCE
    /\ Abs(SumSeq(RowVat, a.vat_breakdown) - a.totals.tax_total_amount)
          <= TOLERANCE

\* C5: every constructed Invoice, whoever constructs it, has a vat_breakdown
\* whose taxable amounts sum to totals.tax_exclusive_amount and whose VAT
\* amounts sum to totals.tax_total_amount (within 0.01); constructing one
\* whose breakdown disagrees with its totals raises a validation error.
C5_BreakdownInvariant ==
    /\ invoice # <<>> => BreakdownInvariant(invoice[1])
    /\ (last.op = "Invoice" /\ ~BreakdownInvariant(last.args))
          => (error = "ValidationError" /\ invoice = <<>>)

(***************************************************************************)
(* Properties of the codec specification.                                  *)
(***************************************************************************)
\* C8: generate_cii_xml returns a document for every constructed Invoice,
\* and validate_xml_structure of that document reports is_valid = true
\* with no errors.
C8_GeneratedXmlIsValid ==
    /\ last.op = "generate_cii_xml" => (error = "none" /\ xml # <<>>)
    /\ (last.op = "validate_xml_structure" /\ last.of = "generate_cii_xml")
          => (report # <<>> /\ report[1].is_valid /\ report[1].errors = <<>>)

MonetaryElements ==
    {"ChargeAmount", "LineTotalAmount", "CalculatedAmount", "BasisAmount",
     "TaxBasisTotalAmount", "TaxTotalAmount", "GrandTotalAmount", "DuePayableAmount"}

HasCurrencyID(node, currency) ==
    \E k \in 1..Len(node.attrs) :
        /\ node.attrs[k].name = <<"", "currencyID">>
        /\ node.attrs[k].value = <<currency>>

\* C9: in the generated document every monetary element (ChargeAmount,
\* LineTotalAmount, CalculatedAmount, BasisAmount, TaxBasisTotalAmount,
\* TaxTotalAmount, GrandTotalAmount, DuePayableAmount) carries a currencyID
\* attribute equal to the invoice's currency_code.
C9_CurrencyID ==
    (invoice # <<>> /\ xml # <<>>) =>
        \A i \in 1..Len(xml[1].nodes) :
            xml[1].nodes[i].name[2] \in MonetaryElements
                => HasCurrencyID(xml[1].nodes[i], invoice[1].currency_code)

\* the four anchors: namespace, local name, and the path the report names
Anchors ==
    << [uri |-> RSM_URI, l |-> "ExchangedDocumentContext",
        path |-> ".//rsm:ExchangedDocumentContext"],
       [uri |-> RSM_URI, l |-> "SupplyChainTradeTransaction",
        path |-> ".//rsm:SupplyChainTradeTransaction"],
       [uri |-> RAM_URI, l |-> "SellerTradeParty", path |-> ".//ram:SellerTradeParty"],
       [uri |-> RAM_URI, l |-> "BuyerTradeParty", path |-> ".//ram:BuyerTradeParty"] >>

\* element j is element i or one of its ancestors (document order)
AncestorOrSelf(nodes, j, i) ==
    \/ j = i
    \/ /\ j < i
       /\ nodes[j].depth < nodes[i].depth
       /\ \A k \in (j + 1)..i : nodes[k].depth > nodes[j].depth

\* element i is the anchor a: its local name, in a's namespace by the
\* nearest xmlns declaration for its prefix
IsAnchor(nodes, i, a) ==
    /\ nodes[i].name[2] = a.l
    /\ \E j \in 1..i :
          /\ AncestorOrSelf(nodes, j, i)
          /\ \E k \in 1..Len(nodes[j].attrs) :
                /\ nodes[j].attrs[k].name = <<"xmlns", nodes[i].name[1]>>
                /\ nodes[j].attrs[k].value = <<a.uri>>
          /\ \A m \in (j + 1)..i :
                AncestorOrSelf(nodes, m, i) =>
                    \A k \in 1..Len(nodes[m].attrs) :
                        nodes[m].attrs[k].name # <<"xmlns", nodes[i].name[1]>>

PresentAnywhere(text, a) == \E i \in 1..Len(text.nodes) : IsAnchor(text.nodes, i, a)
PresentBelowRoot(text, a) == \E i \in 2..Len(text.nodes) : IsAnchor(text.nodes, i, a)

\* the report the claim describes for a text, given which anchors are absent
ReportAsClaimed(r, text, absent) ==
    /\ DOMAIN r = {"is_valid", "errors", "warnings"}
    /\ IF ~WellFormed(text)
       THEN /\ r.is_valid = FALSE
            /\ r.errors = <<"XML parsing error">>
       ELSE /\ r.is_valid = (absent = {})
            /\ Len(r.errors) = Cardinality(absent)
            /\ \A n \in absent :
                  Cardinality({e \in 1..Len(r.errors) :
                      r.errors[e] = "Missing required element: " \o Anchors[n].path}) = 1

\* C10: validate_xml_structure returns a report for every text; for a text
\* that does not parse, is_valid = false with one 'XML parsing error'
\* entry; otherwise is_valid is true exactly when all four anchors are
\* present in the document under the declared namespaces, with exactly one
\* 'Missing required element' entry per absent anchor.
C10_ReportMatchesAnchors ==
    last.op = "validate_xml_structure" =>
        /\ report # <<>>
        /\ ReportAsClaimed(report[1], xml[1],
              {n \in 1..Len(Anchors) : ~PresentAnywhere(xml[1], Anchors[n])})

\* C10, made precise: the anchors are looked for among the elements below
\* the root element; the root element itself is not searched, so an anchor
\* that is the root of the document counts as absent.
C10_ReportMatchesAnchorsBelowRoot ==
    last.op = "validate_xml_structure" =>
        /\ report # <<>>
        /\ ReportAsClaimed(report[1], xml[1],
              {n \in 1..Len(Anchors) : ~PresentBelowRoot(xml[1], Anchors[n])})

\* C10 witness: a received document that parses, whose root element is an
\* ExchangedDocumentContext written with other prefixes for the same
\* namespaces and holding the three other anchors, reported with the one
\* entry for ExchangedDocumentContext.
C10_Witness ==
    /\ last.op = "validate_xml_structure" /\ last.of = "receive"
    /\ WellFormed(xml[1])
    /\ xml[1].nodes[1].name = <<"a", "ExchangedDocumentContext">>
    /\ Len(xml[1].nodes) = 4
    /\ report # <<>>
    /\ ~report[1].is_valid
    /\ report[1].errors = <<"Missing required element: .//rsm:ExchangedDocumentContext">>

(***************************************************************************)
(* Factur-X packaging (PDFGenerator, FacturXService).                      *)
(*                                                                         *)
(* A str is a sequence of characters, bytes a sequence of byte chunks: an  *)
(* ASCII character is one chunk, any other character the chunks of its     *)
(* UTF-8 encoding.  A byte string handed around as a PDF is a record of    *)
(* what the PDF library reads in it (parses, pages, attachments) and of    *)
(* the byte patterns the heuristic validators look for.                    *)
(***************************************************************************)
\* a lone surrogate, which no str.encode('utf-8') accepts
SURROGATE == "U+D800"

\* two characters outside ASCII
E_ACUTE == "U+00E9"
EURO_SIGN == "U+20AC"

\* the UTF-8 encoding of one character
utf8(c) ==
    IF c = E_ACUTE THEN <<"C3", "A9">>
    ELSE IF c = EURO_SIGN THEN <<"E2", "82", "AC">>
    ELSE <<c>>

RECURSIVE encode_range(_, _, _)
\* the bytes of str[lo..hi]
encode_range(str, lo, hi) ==
    IF lo > hi THEN <<>>
    ELSE IF lo = hi THEN utf8(str[lo])
    ELSE LET mid == (lo + hi) \div 2
         IN  encode_range(str, lo, mid) \o encode_range(str, mid + 1, hi)

encode_chars(str) == encode_range(str, 1, Len(str))

\* str.encode('utf-8'): [raised, bytes]
encode(str) ==
    IF \E i \in 1..Len(str) : str[i] = SURROGATE
    THEN [raised |-> "UnicodeEncodeError", bytes |-> <<>>]
    ELSE [raised |-> "none", bytes |-> encode_chars(str)]

\* chunks that are not a character on their own
NonAsciiBytes == {"C3", "A9", "E2", "82", "AC", "FF"}

RECURSIVE decode_ok(_)
\* TRUE iff the bytes are valid UTF-8
decode_ok(b) ==
    IF b = <<>> THEN TRUE
    ELSE IF Head(b) \notin NonAsciiBytes THEN decode_ok(Tail(b))
    ELSE IF Len(b) >= 2 /\ SubSeq(b, 1, 2) = <<"C3", "A9">> THEN decode_ok(SubSeq(b, 3, Len(b)))
    ELSE IF Len(b) >= 3 /\ SubSeq(b, 1, 3) = <<"E2", "82", "AC">>
         THEN decode_ok(SubSeq(b, 4, Len(b)))
    ELSE FALSE

RECURSIVE decode_chars(_)
decode_chars(b) ==
    IF b = <<>> THEN <<>>
    ELSE IF Head(b) = "C3" THEN <<E_ACUTE>> \o decode_chars(SubSeq(b, 3, Len(b)))
    ELSE IF Head(b) = "E2" THEN <<EURO_SIGN>> \o decode_chars(SubSeq(b, 4, Len(b)))
    ELSE <<Head(b)>> \o decode_chars(Tail(b))

\* bytes.decode('utf-8'): [raised, str]
decode(b) ==
    IF decode_ok(b) THEN [raised |-> "none", str |-> decode_chars(b)]
    ELSE [raised |-> "UnicodeDecodeError", str |-> <<>>]

\* a byte string, as the PDF library and the validators see it
Bytes(parses, pages, attachments, header, big, eof, xmp, embedded, fxname, gts) ==
    [parses      |-> parses,       \* PdfReader reads it
     pages       |-> pages,        \* its pages
     attachments |-> attachments,  \* its embedded files: <<[filename, data]>>
     header      |-> header,       \* startswith(b"%PDF-")
     big         |-> big,          \* len() >= 1024
     eof         |-> eof,          \* b"%%EOF" in the last 1024 bytes
     xmp         |-> xmp,          \* b"<x:xmpmeta" in it
     embedded    |-> embedded,     \* b"/EmbeddedFiles" in it
     fxname      |-> fxname,       \* b"factur-x.xml" or b"ZUGFeRD-invoice.xml" in it
     gts         |-> gts]          \* b"/GTS_PDFA1" or b"/GTS_PDFA3" in it

\* the steps of _embed_xml_in_pdf at which the PDF library can fail
EmbedSteps == {"PdfReader", "add_page", "add_attachment", "add_metadata", "write"}

\* what PdfWriter.write gives for the pages of pdf_bytes with one attachment:
\* a new document, without the attachments or XMP metadata of the source
written_pdf(pdf_bytes, xml_bytes) ==
    Bytes(TRUE, pdf_bytes.pages,
          <<[filename |-> "factur-x.xml", data |-> xml_bytes]>>,
          TRUE, TRUE, TRUE, FALSE, TRUE, TRUE, FALSE)

\* variant of _embed_xml_in_pdf that hands back the buffer written so far
\* when PdfWriter.write fails
_embed_xml_in_pdf_partial(pdf_bytes, xml_content, fails) ==
    IF ~pdf_bytes.parses \/ fails \in EmbedSteps \ {"write"}
       \/ encode(xml_content).raised # "none"
    THEN pdf_bytes
    ELSE IF fails = "write"
    THEN Bytes(FALSE, 0, <<>>, TRUE, FALSE, FALSE, FALSE, FALSE, FALSE, FALSE)
    ELSE written_pdf(pdf_bytes, encode(xml_content).bytes)

\* PDFGenerator._embed_xml_in_pdf; fails is the step at which the PDF
\* library raises, "none" when it does not
_embed_xml_in_pdf(pdf_bytes, xml_content, fails) ==
    IF ~pdf_bytes.parses \/ fails \in EmbedSteps
       \/ encode(xml_content).raised # "none"
    THEN pdf_bytes
    ELSE written_pdf(pdf_bytes, encode(xml_content).bytes)

\* the attachment names the factur-x library looks for
FACTURX_FILENAMES == {"factur-x.xml", "ZUGFeRD-invoice.xml"}

\* facturx.get_facturx_xml_from_pdf(pdf_file): [raised, filename, data].
\* lib.on_unreadable is what it does with bytes that are no PDF ("raise" or
\* "none"), lib.accepts whether the XML it finds passes its own checks.
get_facturx_xml_from_pdf(pdf_file, lib) ==
    LET found == {i \in 1..Len(pdf_file.attachments) :
                     pdf_file.attachments[i].filename \in FACTURX_FILENAMES}
        first == CHOOSE i \in found : \A j \in found : i <= j
    IN  IF ~pdf_file.parses
        THEN IF lib.on_unreadable = "raise"
             THEN [raised |-> "PdfReadError", filename |-> None, data |-> None]
             ELSE [raised |-> "none", filename |-> None, data |-> None]
        ELSE IF found = {} \/ ~lib.accepts
        THEN [raised |-> "none", filename |-> None, data |-> None]
        ELSE [raised |-> "none",
              filename |-> Some(pdf_file.attachments[first].filename),
              data |-> Some(pdf_file.attachments[first].data)]

\* FacturXService.extract_xml_from_facturx: None or the XML text
extract_xml_from_facturx(pdf_bytes, lib) ==
    LET xml_result == get_facturx_xml_from_pdf(pdf_bytes, lib)
    IN  IF xml_result.raised # "none" THEN None
        ELSE IF xml_result.data # None /\ xml_result.data[1] # <<>>
        THEN IF decode(xml_result.data[1]).raised # "none" THEN None
             ELSE Some(decode(xml_result.data[1]).str)
        ELSE None

\* what the XML libraries make of the attachment found (etree.fromstring,
\* then facturx.get_level): a level, no level, or an exception
XmlOutcomes == {"basic", "nolevel", "raise"}

\* variant of the else branch that records the missing XML as an error
no_xml_found_as_error(validation_result) ==
    [validation_result EXCEPT
        !.errors = Append(@, "No Factur-X XML found in PDF"),
        !.is_valid = FALSE]

\* the else branch left empty: nothing is recorded
no_xml_found_silent(validation_result) == validation_result

\* the else branch of validate_facturx_file: nothing was extracted
no_xml_found(validation_result) ==
    [validation_result EXCEPT
        !.warnings = Append(@, "No Factur-X XML found in PDF")]

\* FacturXService.validate_facturx_file
validate_facturx_file(pdf_bytes, lib) ==
    LET validation_result ==
            [is_valid |-> TRUE, facturx_level |-> None, has_xml |-> FALSE,
             xml_valid |-> FALSE, errors |-> <<>>, warnings |-> <<>>]
        xml_result == get_facturx_xml_from_pdf(pdf_bytes, lib)
    IN  IF xml_result.raised # "none"
        THEN [validation_result EXCEPT
                 !.errors = Append(@, "Failed to determine Factur-X level"),
                 !.is_valid = FALSE]
        ELSE IF xml_result.data # None /\ xml_result.data[1] # <<>>
        THEN IF lib.xml = "raise"
             THEN [validation_result EXCEPT
                      !.has_xml = TRUE,
                      !.xml_valid = FALSE,
                      !.errors = Append(@, "XML parsing failed"),
                      !.is_valid = FALSE]
             ELSE IF lib.xml = "nolevel"
             THEN [validation_result EXCEPT
                      !.has_xml = TRUE,
                      !.warnings = Append(@, "Could not determine Factur-X level"),
                      !.xml_valid = TRUE]
             ELSE [validation_result EXCEPT
                      !.has_xml = TRUE,
                      !.facturx_level = Some(lib.xml),
                      !.xml_valid = TRUE]
        ELSE no_xml_found(validation_result)

\* the str of a generated document: its tags and character data in order
XmlStr(text) ==
    LET piece(i) == << "<" \o text.nodes[i].name[1] \o ":" \o text.nodes[i].name[2] \o ">" >>
                    \o text.nodes[i].text
        RECURSIVE range(_, _)
        range(lo, hi) ==
            IF lo > hi THEN <<>>
            ELSE IF lo = hi THEN piece(lo)
            ELSE LET mid == (lo + hi) \div 2
                 IN  range(lo, mid) \o range(mid + 1, hi)
    IN  range(1, Len(text.nodes))

\* PDFGenerator.generate_pdf(invoice, xml_content=None): the rendered page
standard_pdf_of(invoice_) ==
    Bytes(TRUE, 1, <<>>, TRUE, TRUE, TRUE, FALSE, FALSE, FALSE, FALSE)

\* facturx.generate_facturx_from_binary, when it succeeds: a PDF/A-3
\* document carrying the XML as factur-x.xml
facturx_pdf_of(standard_pdf, xml_bytes) ==
    Bytes(TRUE, standard_pdf.pages,
          <<[filename |-> "factur-x.xml", data |-> xml_bytes]>>,
          TRUE, TRUE, TRUE, TRUE, TRUE, TRUE, TRUE)

\* PDFGenerator.generate_facturx_pdf: [raised, pdf].  env.render is
\* "raise" when the renderer fails, env.facturx "raise" when the factur-x
\* library call fails, env.fails the failing step of the manual embedding.
generate_facturx_pdf(invoice_, xml_content, env) ==
    LET standard_pdf == standard_pdf_of(invoice_)
        xml_bytes == encode(xml_content)
    IN  IF env.render = "raise"
        THEN [raised |-> "Exception", pdf |-> None]
        ELSE IF xml_bytes.raised = "none" /\ env.facturx = "ok"
        THEN [raised |-> "none", pdf |-> Some(facturx_pdf_of(standard_pdf, xml_bytes.bytes))]
        ELSE [raised |-> "none",
              pdf |-> Some(_embed_xml_in_pdf(standard_pdf, xml_content, env.fails))]

\* FacturXService.generate_facturx_invoice:
\* [raised, pdf_bytes, xml_content, validation_result]
generate_facturx_invoice(invoice_, env, lib) ==
    LET failed == [raised |-> "Exception", pdf_bytes |-> None,
                   xml_content |-> None, validation_result |-> None]
        generated == generate_cii_xml(invoice_)
    IN  IF generated.raised # "none" THEN failed
        ELSE IF ~validate_xml_structure(generated.text[1]).is_valid THEN failed
        ELSE LET xml_content == XmlStr(generated.text[1])
                 made == generate_facturx_pdf(invoice_, xml_content, env)
             IN  IF made.raised # "none" THEN failed
                 ELSE [raised |-> "none",
                       pdf_bytes |-> made.pdf,
                       xml_content |-> Some(xml_content),
                       validation_result |-> Some(validate_facturx_file(made.pdf[1], lib))]

(***************************************************************************)
(* Compliance validation (ValidationService).                              *)
(***************************************************************************)
possible_paths ==
    <<"/usr/local/bin/verapdf", "/opt/verapdf/verapdf", "verapdf",
      "/Applications/veraPDF/verapdf">>

RECURSIVE find_from(_, _)
\* the for loop of _find_verapdf from path k on; probes[k] is what
\* subprocess.run([path, "--version"]) does for path k: "ok" (exit 0),
\* "nonzero", "timeout", "notfound", or "oserror" (any other exception)
find_from(probes, k) ==
    IF k > Len(possible_paths) THEN [raised |-> "none", path |-> None]
    ELSE IF probes[k] = "ok" THEN [raised |-> "none", path |-> Some(possible_paths[k])]
    ELSE IF probes[k] = "oserror" THEN [raised |-> "OSError", path |-> None]
    ELSE find_from(probes, k + 1)

\* ValidationService._find_verapdf: [raised, path]
_find_verapdf(probes) == find_from(probes, 1)

\* ValidationService._fallback_validation
_fallback_validation(pdf_content) ==
    LET errors == (IF ~pdf_content.header THEN <<"Invalid PDF header">> ELSE <<>>)
                  \o (IF ~pdf_content.big THEN <<"PDF file too small">> ELSE <<>>)
        warnings == (IF ~pdf_content.eof
                     THEN <<"PDF trailer not found in expected location">> ELSE <<>>)
                    \o (IF ~pdf_content.xmp
                        THEN <<"XMP metadata not found (required for PDF/A)">> ELSE <<>>)
    IN  [is_valid |-> Len(errors) = 0,
         errors |-> errors,
         warnings |-> warnings \o <<"veraPDF not available - using basic validation">>,
         validator |-> "fallback"]

RECURSIVE assertions_with(_, _)
\* the messages of the assertions with one status, "Unknown error" for an
\* assertion without message
assertions_with(test_assertions, status) ==
    IF test_assertions = <<>> THEN <<>>
    ELSE (IF Head(test_assertions).status = status
          THEN <<IF Head(test_assertions).message = None THEN "Unknown error"
                 ELSE Head(test_assertions).message[1]>>
          ELSE <<>>)
         \o assertions_with(Tail(test_assertions), status)

\* ValidationService._parse_verapdf_result; validation_data is the value
\* json.loads gave: [type, jobs], jobs None when the key is absent
_parse_verapdf_result(validation_data) ==
    IF validation_data.type # "dict"
    THEN [is_valid |-> FALSE, errors |-> <<"Failed to parse validation result">>,
          warnings |-> <<>>, validator |-> "veraPDF"]
    ELSE IF validation_data.jobs = None \/ validation_data.jobs[1] = <<>>
    THEN [is_valid |-> FALSE, errors |-> <<"No validation jobs found">>,
          warnings |-> <<>>, validator |-> "veraPDF"]
    ELSE LET job == validation_data.jobs[1][1]
             has_result == job.validationResult # None
             validation_result == job.validationResult[1]
         IN  [is_valid |-> IF has_result /\ validation_result.isCompliant # None
                           THEN validation_result.isCompliant[1] ELSE FALSE,
              errors |-> IF has_result
                         THEN assertions_with(validation_result.testAssertions, "FAILED")
                         ELSE <<>>,
              warnings |-> IF has_result
                           THEN assertions_with(validation_result.testAssertions, "WARNING")
                           ELSE <<>>,
              validator |-> "veraPDF",
              profile |-> IF has_result /\ validation_result.profile # None
                          THEN validation_result.profile[1] ELSE "PDF/A-3a",
              statement |-> IF has_result /\ validation_result.statement # None
                            THEN validation_result.statement[1] ELSE ""]

\* ValidationService.validate_pdfa3: [report, left], left the number of
\* temporary files that still exist when it returns.  env says what the
\* operating system and veraPDF do during the call:
\*   env.tmp, env.write, env.unlink  "ok" or "raise"
\*   env.run     "timeout", "raise", or "exit" with env.returncode
\*   env.stdout  [json, type, jobs]: json FALSE when it is no JSON text
validate_pdfa3(pdf_content, verapdf_path, env) ==
    LET fallback == _fallback_validation(pdf_content)
    IN  IF verapdf_path = None THEN [report |-> fallback, left |-> 0]
        ELSE IF env.tmp = "raise" THEN [report |-> fallback, left |-> 0]
        ELSE IF env.write = "raise" THEN [report |-> fallback, left |-> 1]
        ELSE IF env.unlink = "raise" THEN [report |-> fallback, left |-> 1]
        ELSE IF env.run # "exit" THEN [report |-> fallback, left |-> 0]
        ELSE IF env.returncode # 0 THEN [report |-> fallback, left |-> 0]
        ELSE IF ~env.stdout.json THEN [report |-> fallback, left |-> 0]
        ELSE [report |-> _parse_verapdf_result(env.stdout), left |-> 0]

\* ValidationService.validate_facturx_structure
validate_facturx_structure(pdf_content) ==
    LET errors ==
            (IF ~pdf_content.embedded
             THEN <<"No embedded files found - Factur-X requires embedded XML">> ELSE <<>>)
            \o (IF ~pdf_content.fxname
                THEN <<"Factur-X XML file not found in embedded files">> ELSE <<>>)
        warnings == IF ~pdf_content.gts
                    THEN <<"PDF/A conformance declaration not found">> ELSE <<>>
    IN  [is_valid |-> Len(errors) = 0,
         errors |-> errors,
         warnings |-> warnings,
         validator |-> "facturx_structure"]

\* variant of combine that keeps only the PDF/A errors
combine_pdfa_errors_only(pdfa_result, facturx_result) ==
    [is_valid |-> pdfa_result.is_valid /\ facturx_result.is_valid,
     errors |-> pdfa_result.errors,
     warnings |-> pdfa_result.warnings \o facturx_result.warnings,
     pdfa3_validation |-> pdfa_result,
     facturx_validation |-> facturx_result,
     validator |-> "comprehensive"]

\* the result validate_comprehensive builds from the two sub-results
combine(pdfa_result, facturx_result) ==
    [is_valid |-> pdfa_result.is_valid /\ facturx_result.is_valid,
     errors |-> pdfa_result.errors \o facturx_result.errors,
     warnings |-> pdfa_result.warnings \o facturx_result.warnings,
     pdfa3_validation |-> pdfa_result,
     facturx_validation |-> facturx_result,
     validator |-> "comprehensive"]

\* ValidationService.validate_comprehensive: [report, left]
validate_comprehensive(pdf_content, verapdf_path, env) ==
    LET pdfa == validate_pdfa3(pdf_content, verapdf_path, env)
    IN  [report |-> combine(pdfa.report, validate_facturx_structure(pdf_content)),
         left |-> pdfa.left]

(***************************************************************************)
(* Inputs of the packaging specification.                                  *)
(***************************************************************************)
\* XML strings handed to the embed step: empty, plain, with characters
\* outside ASCII, with a lone surrogate, and one that is no XML
XmlStrings ==
    { <<>>,
      <<"<a>", "x", "</a>">>,
      <<"<a>", E_ACUTE, EURO_SIGN, "</a>">>,
      <<"<a>", SURROGATE, "</a>">>,
      <<"not", " ", "xml">> }

\* the embedded files of the PDFs received
AttachmentChoices ==
    { <<>>,
      <<[filename |-> "notes.txt", data |-> <<"x">>]>>,
      <<[filename |-> "factur-x.xml", data |-> <<"<a>", "C3", "A9", "</a>">>]>>,
      <<[filename |-> "factur-x.xml", data |-> <<>>]>>,
      <<[filename |-> "factur-x.xml", data |-> <<"<a>", "FF">>]>>,
      <<[filename |-> "notes.txt", data |-> <<"x">>],
        [filename |-> "ZUGFeRD-invoice.xml", data |-> <<"<b>", "</b>">>]>> }

\* the recognised name occurs in the attachments
NamesFacturx(attachments) ==
    \E i \in 1..Len(attachments) : attachments[i].filename \in FACTURX_FILENAMES

\* byte strings received: ones the PDF library does not read (b"" and
\* b"not a pdf" are the one without header, size or patterns), and PDFs
\* with and without attachments, XMP metadata and conformance declaration
ReceivedPdfs ==
    {Bytes(FALSE, 0, <<>>, header, big, FALSE, FALSE, names, names, FALSE) :
        header \in BOOLEAN, big \in BOOLEAN, names \in BOOLEAN}
    \cup
    {Bytes(TRUE, 1, <<>>, TRUE, big, TRUE, pdfa, FALSE, mention, pdfa) :
        big \in BOOLEAN, pdfa \in BOOLEAN, mention \in BOOLEAN}
    \cup
    {Bytes(TRUE, 1, attachments, TRUE, TRUE, TRUE, pdfa, TRUE,
           NamesFacturx(attachments), pdfa) :
        attachments \in AttachmentChoices \ {<<>>}, pdfa \in BOOLEAN}

\* what the factur-x library can do
Libs ==
    [on_unreadable : {"raise", "none"}, accepts : BOOLEAN, xml : XmlOutcomes]
ExtractLibs == {lib \in Libs : lib.xml = "basic"}

\* what the renderer and the PDF libraries can do during generation
GenerateEnvs ==
    {env \in [render : {"ok", "raise"}, facturx : {"ok", "raise"},
              fails : EmbedSteps \cup {"none"}] :
        /\ env.render = "raise" => env.facturx = "ok"
        /\ env.facturx = "ok" => env.fails = "none"}

\* what _find_verapdf can meet
ProbeChoices ==
    { <<"notfound", "notfound", "notfound", "notfound">>,
      <<"ok", "notfound", "notfound", "notfound">>,
      <<"notfound", "nonzero", "timeout", "ok">>,
      <<"notfound", "notfound", "oserror", "ok">>,
      <<"timeout", "nonzero", "notfound", "nonzero">> }

\* documents json.loads can give for the output of veraPDF
Assertion(status, message) == [status |-> status, message |-> message]
ValidationResult(isCompliant, testAssertions) ==
    [isCompliant |-> isCompliant, testAssertions |-> testAssertions,
     profile |-> Some("PDF/A-3A"), statement |-> None]
JsonDict(jobs) == [json |-> TRUE, type |-> "dict", jobs |-> jobs]
Job(validationResult) == [validationResult |-> validationResult]
VeraPdfOutputs ==
    { [json |-> FALSE, type |-> "none", jobs |-> None],
      [json |-> TRUE, type |-> "list", jobs |-> None],
      JsonDict(None),
      JsonDict(Some(<<>>)),
      JsonDict(Some(<<Job(None)>>)),
      JsonDict(Some(<<Job(Some(ValidationResult(Some(TRUE), <<>>)))>>)),
      JsonDict(Some(<<Job(Some(ValidationResult(Some(TRUE),
          <<Assertion("PASSED", Some("ok")), Assertion("WARNING", Some("font"))>>)))>>)),
      JsonDict(Some(<<Job(Some(ValidationResult(Some(FALSE),
          <<Assertion("FAILED", Some("6.1.2")), Assertion("FAILED", None),
            Assertion("WARNING", Some("font"))>>)))>>)),
      JsonDict(Some(<<Job(Some(ValidationResult(None, <<>>)))>>)) }

OkEnv(stdout) ==
    [tmp |-> "ok", write |-> "ok", unlink |-> "ok", run |-> "exit",
     returncode |-> 0, stdout |-> stdout]
\* one thing going wrong at a time around each output of veraPDF
ToolEnvs ==
    LET none == [json |-> FALSE, type |-> "none", jobs |-> None]
    IN  {OkEnv(stdout) : stdout \in VeraPdfOutputs}
        \cup {[OkEnv(none) EXCEPT !.tmp = "raise"],
              [OkEnv(none) EXCEPT !.write = "raise"],
              [OkEnv(none) EXCEPT !.run = "timeout"],
              [OkEnv(none) EXCEPT !.run = "raise"],
              [OkEnv(none) EXCEPT !.returncode = 1]}
        \cup {[OkEnv(stdout) EXCEPT !.unlink = "raise"] :
                 stdout \in {none, JsonDict(Some(<<Job(Some(ValidationResult(Some(TRUE), <<>>)))>>))}}

\* invoices handed to generate_facturx_invoice
GenerateInvoices ==
    {CodecInvoice("380", "EUR", name, <<BaseLine>>, None, None, <<None, None>>, None, None) :
        name \in {Lit("ACME Corporation"), <<"A", VT, "B">>}}

(***************************************************************************)
(* Actions of the packaging specification.                                 *)
(***************************************************************************)
domainVars == <<invoice_lines, _sequence_counter, invoice, totals>>

\* ValidationService(): __init__ runs _find_verapdf
NewValidationService(probes) ==
    /\ last.op = "init"
    /\ validation_service = <<>>
    /\ LET found == _find_verapdf(probes)
       IN  /\ validation_service' =
                IF found.raised = "none" THEN <<[verapdf_path |-> found.path]>> ELSE <<>>
           /\ error' = found.raised
    /\ last' = [op |-> "ValidationService", probes |-> probes]
    /\ UNCHANGED <<domainVars, xml, report, pdf, tmp_files, storeVars>>

\* a byte string arrives from a caller
ReceivePdf(pdf_bytes) ==
    /\ last.op \in {"init", "ValidationService"}
    /\ pdf = <<>>
    /\ pdf' = <<pdf_bytes>>
    /\ last' = [op |-> "receive_pdf"]
    /\ UNCHANGED <<domainVars, xml, report, error, validation_service, tmp_files, storeVars>>

\* PDFGenerator._embed_xml_in_pdf(pdf_bytes, xml_content)
EmbedXmlInPdf(xml_content, fails) ==
    /\ last.op = "receive_pdf"
    /\ pdf # <<>>
    /\ pdf' = <<_embed_xml_in_pdf(pdf[1], xml_content, fails)>>
    /\ xml' = <<xml_content>>
    /\ error' = "none"
    /\ last' = [op |-> "_embed_xml_in_pdf", pdf_bytes |-> pdf[1],
                xml_content |-> xml_content, fails |-> fails]
    /\ UNCHANGED <<domainVars, report, validation_service, tmp_files, storeVars>>

\* FacturXService.extract_xml_from_facturx(pdf_bytes)
ExtractXmlFromFacturx(lib) ==
    /\ last.op \in {"receive_pdf", "_embed_xml_in_pdf"}
    /\ pdf # <<>>
    /\ xml' = extract_xml_from_facturx(pdf[1], lib)
    /\ error' = "none"
    /\ last' = [op |-> "extract_xml_from_facturx", lib |-> lib, after |-> last]
    /\ UNCHANGED <<domainVars, report, packVars, storeVars>>

\* FacturXService.validate_facturx_file(pdf_bytes)
ValidateFacturxFile(lib) ==
    /\ last.op = "receive_pdf"
    /\ pdf # <<>>
    /\ report' = <<validate_facturx_file(pdf[1], lib)>>
    /\ error' = "none"
    /\ last' = [op |-> "validate_facturx_file", lib |-> lib]
    /\ UNCHANGED <<domainVars, xml, packVars, storeVars>>

\* FacturXService.generate_facturx_invoice(invoice)
GenerateFacturxInvoice(invoice_, env, lib) ==
    /\ last.op = "init"
    /\ LET r == generate_facturx_invoice(invoice_, env, lib)
       IN  /\ pdf' = r.pdf_bytes
           /\ xml' = r.xml_content
           /\ report' = r.validation_result
           /\ error' = r.raised
    /\ invoice' = <<invoice_>>
    /\ last' = [op |-> "generate_facturx_invoice", env |-> env, lib |-> lib]
    /\ UNCHANGED <<invoice_lines, _sequence_counter, totals, validation_service, tmp_files, storeVars>>

\* ValidationService.validate_pdfa3(pdf_content)
ValidatePdfa3(env) ==
    /\ last.op = "receive_pdf"
    /\ validation_service # <<>> /\ pdf # <<>>
    /\ LET r == validate_pdfa3(pdf[1], validation_service[1].verapdf_path, env)
       IN  report' = <<r.report>> /\ tmp_files' = tmp_files + r.left
    /\ error' = "none"
    /\ last' = [op |-> "validate_pdfa3", env |-> env]
    /\ UNCHANGED <<domainVars, xml, validation_service, pdf, storeVars>>

\* ValidationService.validate_facturx_structure(pdf_content)
ValidateFacturxStructure ==
    /\ last.op = "receive_pdf"
    /\ validation_service # <<>> /\ pdf # <<>>
    /\ report' = <<validate_facturx_structure(pdf[1])>>
    /\ error' = "none"
    /\ last' = [op |-> "validate_facturx_structure"]
    /\ UNCHANGED <<domainVars, xml, packVars, storeVars>>

\* ValidationService.validate_comprehensive(pdf_content)
ValidateComprehensive(env) ==
    /\ last.op = "receive_pdf"
    /\ validation_service # <<>> /\ pdf # <<>>
    /\ LET r == validate_comprehensive(pdf[1], validation_service[1].verapdf_path, env)
       IN  report' = <<r.report>> /\ tmp_files' = tmp_files + r.left
    /\ error' = "none"
    /\ last' = [op |-> "validate_comprehensive", env |-> env]
    /\ UNCHANGED <<domainVars, xml, validation_service, pdf, storeVars>>

NextPack ==
    \/ \E probes \in ProbeChoices : NewValidationService(probes)
    \/ \E pdf_bytes \in ReceivedPdfs : ReceivePdf(pdf_bytes)
    \/ \E xml_content \in XmlStrings, fails \in EmbedSteps \cup {"none"} :
          EmbedXmlInPdf(xml_content, fails)
    \/ \E lib \in ExtractLibs : ExtractXmlFromFacturx(lib)
    \/ \E lib \in Libs : ValidateFacturxFile(lib)
    \/ \E invoice_ \in GenerateInvoices, env \in GenerateEnvs, lib \in Libs :
          GenerateFacturxInvoice(invoice_, env, lib)
    \/ \E env \in ToolEnvs : ValidatePdfa3(env)
    \/ ValidateFacturxStructure
    \/ \E env \in ToolEnvs : ValidateComprehensive(env)

SpecPack == Init /\ [][NextPack]_vars

(***************************************************************************)
(* Claims about packaging and validation.                                  *)
(***************************************************************************)
\* extract_xml_from_facturx has just run on the result of _embed_xml_in_pdf
\* for a PDF the library reads, no embedding step failed, and the factur-x
\* library hands out the attachment it finds
ExtractedAfterEmbed ==
    /\ last.op = "extract_xml_from_facturx"
    /\ last.after.op = "_embed_xml_in_pdf"
    /\ last.after.pdf_bytes.parses
    /\ last.after.fails = "none"
    /\ last.lib.accepts

\* C11: for every valid PDF and every XML string, extract_xml_from_facturx
\* applied to the bytes returned by _embed_xml_in_pdf returns a text equal
\* to the XML string that was embedded.
C11_RoundTrip ==
    ExtractedAfterEmbed => xml = Some(last.after.xml_content)

\* a step of the embedding just performed failed: the source was not
\* readable, the XML string could not be encoded, or the library failed
\* while copying pages, attaching, setting metadata or writing
EmbedStepFailed ==
    /\ last.op = "_embed_xml_in_pdf"
    /\ \/ ~last.pdf_bytes.parses
       \/ last.fails \in EmbedSteps
       \/ encode(last.xml_content).raised # "none"

\* C12: _embed_xml_in_pdf never raises, and whenever a step of the
\* embedding fails it returns exactly the bytes it was given.
C12_EmbedFallsBackToInput ==
    /\ last.op = "_embed_xml_in_pdf" => error = "none" /\ pdf # <<>>
    /\ EmbedStepFailed => pdf = Some(last.pdf_bytes)

\* the write step failed on a readable PDF, and the input came back
C12_Witness ==
    /\ EmbedStepFailed
    /\ last.pdf_bytes.parses /\ last.fails = "write"
    /\ last.xml_content # <<>>
    /\ pdf = Some(last.pdf_bytes)

MISSING_XML == "No Factur-X XML found in PDF"
Entries(list) == {list[i] : i \in 1..Len(list)}

\* generate_facturx_invoice has returned a PDF that carries no XML
GeneratedWithoutXml ==
    /\ last.op = "generate_facturx_invoice"
    /\ error = "none"
    /\ pdf # <<>> /\ pdf[1].attachments = <<>>

C14_ValidationIsTotal ==
    (\/ last.op = "validate_comprehensive"
     \/ last.op = "validate_facturx_file" /\ last.lib.on_unreadable = "raise")
    => /\ error = "none"
       /\ report # <<>>
       /\ ~pdf[1].parses => ~report[1].is_valid /\ report[1].errors # <<>>

\* validate_facturx_file has run and the extraction gave nothing without
\* raising: no result, or a result whose data is empty
NothingExtracted ==
    /\ last.op = "validate_facturx_file"
    /\ LET xml_result == get_facturx_xml_from_pdf(pdf[1], last.lib)
       IN  /\ xml_result.raised = "none"
           /\ xml_result.data = None \/ xml_result.data[1] = <<>>

\* C15: when nothing can be extracted and nothing is raised, the report of
\* validate_facturx_file has has_xml = false, xml_valid = false, no level,
\* no error, exactly the missing-XML warning, and is_valid = true.
C15_MissingXmlIsAWarning ==
    NothingExtracted =>
        /\ report # <<>>
        /\ ~report[1].has_xml
        /\ ~report[1].xml_valid
        /\ report[1].facturx_level = None
        /\ report[1].errors = <<>>
        /\ report[1].warnings = <<MISSING_XML>>
        /\ report[1].is_valid

\* a readable PDF without attachment has been validated
C15_Witness ==
    /\ NothingExtracted
    /\ pdf[1].parses /\ pdf[1].attachments = <<>>
    /\ report # <<>> /\ report[1].warnings = <<MISSING_XML>>

\* C16: for a plain PDF with no attachment, is_valid of
\* validate_comprehensive is the is_valid of the PDF/A check, and the
\* missing embedded XML adds no entry to errors.
C16_PlainPdfJudgedByPdfaOnly ==
    (/\ last.op = "validate_comprehensive"
     /\ pdf[1].parses /\ pdf[1].attachments = <<>>)
    => /\ report[1].is_valid = report[1].pdfa3_validation.is_valid
       /\ report[1].errors = report[1].pdfa3_validation.errors

DEGRADED == "veraPDF not available - using basic validation"

\* validate_pdfa3 has run and the external tool failed: it is not
\* installed, or the temporary file was handed over and the run timed out,
\* raised, exited with a nonzero code, or printed something that is no JSON
\* or a JSON document without a validation job
ToolFailed ==
    /\ last.op = "validate_pdfa3"
    /\ \/ validation_service[1].verapdf_path = None
       \/ /\ last.env.tmp = "ok" /\ last.env.write = "ok"
          /\ \/ last.env.run # "exit"
             \/ last.env.returncode # 0
             \/ ~last.env.stdout.json
             \/ last.env.stdout.type # "dict"
             \/ last.env.stdout.jobs = None
             \/ last.env.stdout.jobs[1] = <<>>

\* C17: whenever the external tool fails, validate_pdfa3 returns the
\* report of the fallback validator for the same bytes, with validator
\* "fallback" and the warning that validation was degraded.
C17_ToolFailureFallsBack ==
    ToolFailed =>
        /\ error = "none"
        /\ report = Some(_fallback_validation(pdf[1]))
        /\ report[1].validator = "fallback"
        /\ DEGRADED \in Entries(report[1].warnings)

\* C18: with veraPDF available, the temporary file of validate_pdfa3 no
\* longer exists when the call returns, on every exit path (taken with a
\* deletion that itself succeeds whenever it is attempted).
C18_TemporaryFileRemoved ==
    (/\ last.op = "validate_pdfa3"
     /\ validation_service[1].verapdf_path # None
     /\ last.env.unlink = "ok")
    => tmp_files = 0

VALIDATORS == {"veraPDF", "fallback", "facturx_structure", "comprehensive"}

\* C19: every report returned by validate_pdfa3,
\* validate_facturx_structure, validate_comprehensive and
\* FacturXService.validate_facturx_file has a validator field, and its
\* value is one of the four backend names.
C19_ReportNamesValidator ==
    (/\ last.op \in {"validate_pdfa3", "validate_facturx_structure",
                     "validate_comprehensive", "validate_facturx_file"}
     /\ report # <<>>)
    => /\ "validator" \in DOMAIN report[1]
       /\ report[1].validator \in VALIDATORS

\* the two sub-checks of the validate_comprehensive call just made
PdfaResult ==
    validate_pdfa3(pdf[1], validation_service[1].verapdf_path, last.env).report
FacturxResult == validate_facturx_structure(pdf[1])

\* C20: is_valid of validate_comprehensive is the conjunction of the two
\* sub-checks' is_valid, its errors are the PDF/A errors followed by the
\* Factur-X errors, and its warnings the PDF/A warnings followed by the
\* Factur-X warnings.
C20_ComprehensiveMerges ==
    last.op = "validate_comprehensive" =>
        /\ report[1].is_valid = (PdfaResult.is_valid /\ FacturxResult.is_valid)
        /\ report[1].errors = PdfaResult.errors \o FacturxResult.errors
        /\ report[1].warnings = PdfaResult.warnings \o FacturxResult.warnings
        /\ Len(report[1].errors) = Len(PdfaResult.errors) + Len(FacturxResult.errors)
        /\ Len(report[1].warnings) = Len(PdfaResult.warnings) + Len(FacturxResult.warnings)

\* both sub-checks reported errors and warnings, and veraPDF was the
\* PDF/A backend
C20_Witness ==
    /\ last.op = "validate_comprehensive"
    /\ PdfaResult.validator = "veraPDF"
    /\ PdfaResult.errors # <<>> /\ FacturxResult.errors # <<>>
    /\ PdfaResult.warnings # <<>> /\ FacturxResult.warnings # <<>>
    /\ ~report[1].is_valid
    /\ Len(report[1].errors) >= 3

(***************************************************************************)
(* Operations on an existing Invoice.  Invoice, InvoiceTotals and          *)
(* VATBreakdown are pydantic models whose Config neither freezes them nor  *)
(* validates assignments; invoice_lines is a python list.                  *)
(***************************************************************************)
\* invoice.totals.<field> = v
assign_totals_field(invoice_, field, v) ==
    [invoice_ EXCEPT !.totals[field] = v]

\* invoice.vat_breakdown[k].vat_amount = v
assign_breakdown_vat_amount(invoice_, k, v) ==
    [invoice_ EXCEPT !.vat_breakdown[k].vat_amount = v]

\* invoice.currency_code = v
assign_currency_code(invoice_, v) ==
    [invoice_ EXCEPT !.currency_code = v]

\* invoice.invoice_lines.append(line)
append_invoice_line(invoice_, line) ==
    [invoice_ EXCEPT !.invoice_lines = Append(@, line)]

TotalsFields ==
    {"line_total_amount", "tax_exclusive_amount", "tax_total_amount",
     "tax_inclusive_amount", "payable_amount", "prepaid_amount"}
AssignedAmounts == {0, 1 * 100 * Cent, 120 * 100 * Cent}

Constructed == invoice # <<>> /\ last.op = "Invoice" /\ error = "none"

AssignTotalsField(field, v) ==
    /\ Constructed
    /\ invoice' = <<assign_totals_field(invoice[1], field, v)>>
    \* the InvoiceTotals object handed to Invoice(...) is the one assigned to
    \* when pydantic kept the instance, and is untouched when it copied it
    /\ totals' \in {totals, <<assign_totals_field(invoice[1], field, v).totals>>}
    /\ last' = [op |-> "assign", target |-> "totals", before |-> invoice[1]]
    /\ UNCHANGED <<invoice_lines, _sequence_counter, xml, report, error,
                   packVars, storeVars>>

AssignBreakdownVatAmount(k, v) ==
    /\ Constructed
    /\ k \in 1..Len(invoice[1].vat_breakdown)
    /\ invoice' = <<assign_breakdown_vat_amount(invoice[1], k, v)>>
    /\ last' = [op |-> "assign", target |-> "vat_breakdown", before |-> invoice[1]]
    /\ UNCHANGED <<invoice_lines, _sequence_counter, totals, xml, report, error,
                   packVars, storeVars>>

AssignCurrencyCode(v) ==
    /\ Constructed
    /\ invoice' = <<assign_currency_code(invoice[1], v)>>
    /\ last' = [op |-> "assign", target |-> "currency_code", before |-> invoice[1]]
    /\ UNCHANGED <<invoice_lines, _sequence_counter, totals, xml, report, error,
                   packVars, storeVars>>

AppendInvoiceLine(line) ==
    /\ Constructed
    /\ invoice' = <<append_invoice_line(invoice[1], line)>>
    /\ last' = [op |-> "append", target |-> "invoice_lines", before |-> invoice[1]]
    /\ UNCHANGED <<invoice_lines, _sequence_counter, totals, xml, report, error,
                   packVars, storeVars>>

NextMutate ==
    \/ \E a \in TotalsArgs : NewInvoiceTotals(a)
    \/ NewInvoiceWithTotals
    \/ \E field \in TotalsFields, v \in AssignedAmounts : AssignTotalsField(field, v)
    \/ \E k \in 1..2, v \in AssignedAmounts : AssignBreakdownVatAmount(k, v)
    \/ \E v \in CurrencyCode : AssignCurrencyCode(v)
    \/ \E line \in {BaseLine, ZeroRatedLine} : AppendInvoiceLine(line)

SpecMutate == Init /\ [][NextMutate]_vars

\* C21: no operation on an existing Invoice changes its state, so the
\* relations between its totals established at construction hold for it in
\* every later state.
C21_InvoiceImmutable ==
    /\ last.op \in {"assign", "append"} => invoice = <<last.before>>
    /\ invoice # <<>> => TotalsInvariant(invoice[1].totals)

(***************************************************************************)
(* The invoice service with its store, and the business configuration.     *)
(***************************************************************************)
MaxConfigs == 2
MaxIssued == 3
MaxStored == 2

\* update_business_config rebinding nothing and overwriting the object the
\* global is bound to
update_business_config_in_place(configs_, current, config) ==
    [configs |-> [configs_ EXCEPT ![current] = config], BUSINESS_CONFIG |-> current]

\* update_business_config(config): the global is bound to the object given
update_business_config(configs_, current, config) ==
    [configs |-> Append(configs_, config), BUSINESS_CONFIG |-> Len(configs_) + 1]

\* the Party create_invoice_from_request builds from business_config: the
\* name is a str, the address and the tax registration are the objects of
\* the configuration (of: its index in configs)
seller_from(current, business_config) ==
    [name |-> business_config.company_name,
     address |-> [of |-> current],
     tax_registration |-> [of |-> current],
     contact_name |-> None, contact_phone |-> None, contact_email |-> None]

\* what reading the seller of an invoice gives
seller_data(configs_, seller) ==
    [name |-> seller.name,
     address |-> configs_[seller.address.of].legal_address,
     tax_registration |-> configs_[seller.tax_registration.of].tax_registration]

\* the seller data of a configuration
config_data(business_config) ==
    [name |-> business_config.company_name,
     address |-> business_config.legal_address,
     tax_registration |-> business_config.tax_registration]

\* the counter after generate_invoice_number, left as it was
next_sequence_stuck(counter) == counter

\* self._sequence_counter += 1
next_sequence(counter) == counter + 1

\* the keyword arguments handed to Invoice(...) under the current
\* configuration
create_invoice_with_config(req, seq, today, current, business_config) ==
    [create_invoice_from_request(req, seq, today) EXCEPT
        !.seller = seller_from(current, business_config)]

\* dict[key] = value on a dict kept as <<key, value>> pairs in insertion order
dict_set(d, key, value) ==
    IF \E i \in 1..Len(d) : d[i].key = key
    THEN [i \in 1..Len(d) |-> IF d[i].key = key THEN [key |-> key, value |-> value] ELSE d[i]]
    ELSE Append(d, [key |-> key, value |-> value])

\* str(uuid.uuid4()): a key no earlier call produced
uuid4(d) ==
    [uuid |-> 1 + Cardinality({i \in 1..Len(d) : "uuid" \in DOMAIN d[i].key})]

\* InvoiceService.store_invoice: the dict afterwards
store_invoice(d, invoice_) ==
    LET invoice_id == uuid4(d)
    IN  dict_set(dict_set(d, [number |-> invoice_.invoice_number], invoice_),
                 invoice_id, invoice_)

\* the loop over the dict values keeping the first invoice of each number
RECURSIVE unique_invoices(_, _, _)
unique_invoices(d, i, acc) ==
    IF i > Len(d) THEN acc
    ELSE IF \E k \in 1..Len(acc) : acc[k].invoice_number = d[i].value.invoice_number
    THEN unique_invoices(d, i + 1, acc)
    ELSE unique_invoices(d, i + 1, Append(acc, d[i].value))

\* sq[start:end] for python ints: negative indices count from the end,
\* indices are clamped to the list
slice(sq, start, end) ==
    LET n == Len(sq)
        norm(k) == IF k < 0 THEN (IF k + n < 0 THEN 0 ELSE k + n)
                   ELSE IF k > n THEN n ELSE k
    IN  SubSeq(sq, norm(start) + 1, norm(end))

\* InvoiceService.list_invoices(limit, offset) with buyer_name left None
list_invoices(d, limit, offset) ==
    slice(unique_invoices(d, 1, <<>>), offset, offset + limit)

\* float(amount): the double nearest to the decimal
float(amount) == [float |-> amount]

RECURSIVE sum_payable(_)
sum_payable(invoices) ==
    IF invoices = <<>> THEN 0
    ELSE Head(invoices).totals.payable_amount + sum_payable(Tail(invoices))

\* InvoiceService.get_invoice_statistics: the dict returned, given the
\* number generate_invoice_number hands out
get_invoice_statistics(d, next_invoice_number) ==
    LET unique == unique_invoices(d, 1, <<>>)
        currencies == {unique[i].currency_code : i \in 1..Len(unique)}
    IN  [total_invoices |-> Len(unique),
         total_amount |-> float(sum_payable(unique)),
         currency_breakdown |->
            [c \in currencies |->
                float(sum_payable(SelectSeq(unique, LAMBDA inv : inv.currency_code = c)))],
         next_invoice_number |-> next_invoice_number]

\* the request create_sample_invoice builds: unit_code is no field of
\* InvoiceLine and is dropped, so both lines keep unit_of_measure "C62".
\* The quantities are a tenth of the source's 40 and 8 hours, which keeps
\* every product within 32-bit integers.
SampleRequest ==
    [due_date |-> None, invoice_type |-> "380", currency_code |-> "EUR",
     buyer |-> Party(Lit("ACME Corporation"), Some([vat_number |-> Some(Lit("FR98765432109"))]), None),
     invoice_lines |->
        << [line_id |-> Lit("1"), item_name |-> Lit("Software Development Services"),
            quantity |-> 40, unit_price |-> 12500,
            line_total_amount |-> 500 * 100 * Cent,
            vat_rate |-> 20, vat_category |-> "S", unit_of_measure |-> "C62"],
           [line_id |-> Lit("2"), item_name |-> Lit("Technical Consultation"),
            quantity |-> 8, unit_price |-> 15000,
            line_total_amount |-> 120 * 100 * Cent,
            vat_rate |-> 20, vat_category |-> "S", unit_of_measure |-> "C62"] >>,
     order_reference |-> Some(Lit("PO-ACME-2024-001")), contract_reference |-> None,
     payment_terms |-> None]

\* configurations handed to update_business_config
ConfigChoices ==
    { BusinessConfiguration(Lit("New Name SARL"), Lit("1 Rue Neuve"), Some(Lit("FR11111111111"))),
      BusinessConfiguration(Lit("Factur-X Express SAS"), Lit("7 Quai"), None) }

ServiceRequests == {Request(<<BaseLine>>)}
Years == {Today[1]}
\* (limit, offset) pairs of the list route, which passes any integers on
ListCalls == {<<10, 0>>, <<1, 1>>, <<0 - 1, 0>>, <<10, 0 - 1>>}

\* number of store_invoice calls so far
Stored == Cardinality({i \in 1..Len(_invoices) : "uuid" \in DOMAIN _invoices[i].key})

\* invoices a caller may hand to store_invoice: one the service built, or
\* one the caller constructed with the number of an earlier one
StoreCandidates ==
    {built[i].invoice : i \in 1..Len(built)}
    \cup {[built[i].invoice EXCEPT !.currency_code = "USD"] : i \in 1..Len(built) \cap {1}}

Issue(year) == [number |-> generate_invoice_number(year, _sequence_counter),
                seq |-> _sequence_counter]

\* InvoiceService.generate_invoice_number()
GenerateInvoiceNumber(year) ==
    /\ Len(issued) < MaxIssued
    /\ issued' = Append(issued, Issue(year))
    /\ _sequence_counter' = next_sequence(_sequence_counter)
    /\ report' = <<>> /\ error' = "none"
    /\ last' = [op |-> "generate_invoice_number"]
    /\ UNCHANGED <<invoice_lines, invoice, totals, xml, packVars,
                   configs, BUSINESS_CONFIG, _invoices, built>>

\* InvoiceService.create_invoice_from_request(request) under the current
\* configuration
CreateInvoice(req) ==
    /\ Len(issued) < MaxIssued
    /\ LET a == create_invoice_with_config(req, _sequence_counter, Today,
                                           BUSINESS_CONFIG, configs[BUSINESS_CONFIG])
       IN  IF CreateSucceeds(req, _sequence_counter, Today)
           THEN /\ invoice' = <<a>>
                /\ built' = Append(built, [invoice |-> a, config |-> configs[BUSINESS_CONFIG]])
                /\ error' = "none"
           ELSE /\ invoice' = <<>>
                /\ built' = built
                /\ error' = "ValidationError"
    /\ issued' = Append(issued, Issue(Today[1]))
    /\ _sequence_counter' = next_sequence(_sequence_counter)
    /\ report' = <<>>
    /\ last' = [op |-> "create_invoice_from_request"]
    /\ UNCHANGED <<invoice_lines, totals, xml, packVars, configs, BUSINESS_CONFIG, _invoices>>

\* update_business_config(config)
UpdateBusinessConfig(config) ==
    /\ Len(configs) < MaxConfigs
    /\ config # configs[BUSINESS_CONFIG]
    /\ LET r == update_business_config(configs, BUSINESS_CONFIG, config)
       IN  configs' = r.configs /\ BUSINESS_CONFIG' = r.BUSINESS_CONFIG
    /\ report' = <<>> /\ error' = "none"
    /\ last' = [op |-> "update_business_config"]
    /\ UNCHANGED <<invoice_lines, _sequence_counter, invoice, totals, xml, packVars,
                   _invoices, issued, built>>

\* InvoiceService.store_invoice(invoice)
StoreInvoice(invoice_) ==
    /\ Stored < MaxStored
    /\ _invoices' = store_invoice(_invoices, invoice_)
    /\ report' = <<>> /\ error' = "none"
    /\ last' = [op |-> "store_invoice"]
    /\ UNCHANGED <<invoice_lines, _sequence_counter, invoice, totals, xml, packVars,
                   configs, BUSINESS_CONFIG, issued, built>>

\* InvoiceService.list_invoices(limit, offset)
ListInvoices(limit, offset) ==
    /\ last.op # "list_invoices"
    /\ report' = <<[invoices |-> list_invoices(_invoices, limit, offset)]>>
    /\ error' = "none"
    /\ last' = [op |-> "list_invoices", limit |-> limit, offset |-> offset]
    /\ UNCHANGED <<invoice_lines, _sequence_counter, invoice, totals, xml, packVars,
                   storeVars>>

\* InvoiceService.get_invoice_statistics()
GetInvoiceStatistics ==
    /\ Len(issued) < MaxIssued
    /\ report' = <<get_invoice_statistics(_invoices, Issue(Today[1]).number)>>
    /\ issued' = Append(issued, Issue(Today[1]))
    /\ _sequence_counter' = next_sequence(_sequence_counter)
    /\ error' = "none"
    /\ last' = [op |-> "get_invoice_statistics", counter |-> _sequence_counter]
    /\ UNCHANGED <<invoice_lines, invoice, totals, xml, packVars,
                   configs, BUSINESS_CONFIG, _invoices, built>>

\* InvoiceService.create_sample_invoice(): create_invoice_from_request, then
\* store_invoice
CreateSampleInvoice ==
    /\ Len(issued) < MaxIssued
    /\ Stored < MaxStored
    /\ LET a == create_invoice_with_config(SampleRequest, _sequence_counter, Today,
                                           BUSINESS_CONFIG, configs[BUSINESS_CONFIG])
       IN  /\ invoice' = <<a>>
           /\ built' = Append(built, [invoice |-> a, config |-> configs[BUSINESS_CONFIG]])
           /\ _invoices' = store_invoice(_invoices, a)
    /\ issued' = Append(issued, Issue(Today[1]))
    /\ _sequence_counter' = next_sequence(_sequence_counter)
    /\ report' = <<>> /\ error' = "none"
    /\ last' = [op |-> "create_sample_invoice"]
    /\ UNCHANGED <<invoice_lines, totals, xml, packVars, configs, BUSINESS_CONFIG>>

NextService ==
    \/ \E year \in Years : GenerateInvoiceNumber(year)
    \/ \E req \in ServiceRequests : CreateInvoice(req)
    \/ \E config \in ConfigChoices : UpdateBusinessConfig(config)
    \/ \E invoice_ \in StoreCandidates : StoreInvoice(invoice_)
    \/ \E call \in ListCalls : ListInvoices(call[1], call[2])
    \/ GetInvoiceStatistics
    \/ CreateSampleInvoice

SpecService == Init /\ [][NextService]_vars

\* C22: every invoice built keeps the seller name, address and tax
\* registration of the configuration that was current when it was built,
\* whatever update_business_config calls follow.
C22_SellerKept ==
    \A i \in 1..Len(built) :
        seller_data(configs, built[i].invoice.seller) = config_data(built[i].config)

\* an invoice built under a configuration that an update has since replaced
C22_Witness ==
    /\ last.op = "update_business_config"
    /\ \E i \in 1..Len(built) : built[i].config # configs[BUSINESS_CONFIG]

\* C23: no two calls of generate_invoice_number returned the same number,
\* and the sequence part strictly increases from one call to the next.
C23_NumbersUnique ==
    \A i, j \in 1..Len(issued) :
        i < j => /\ issued[i].number # issued[j].number
                 /\ issued[i].seq < issued[j].seq

\* three numbers issued, by a direct call, by the statistics and by a
\* creation
C23_Witness ==
    /\ Len(issued) >= 3
    /\ last.op = "create_invoice_from_request"
    /\ report = <<>>

\* the stored invoices, one per number
StoredNumbers ==
    {_invoices[i].value.invoice_number : i \in 1..Len(_invoices)}

\* the entries of sq at the 0-based positions from..to that exist
RECURSIVE positions(_, _, _)
positions(sq, from, to) ==
    IF from > to THEN <<>>
    ELSE IF from >= 0 /\ from < Len(sq)
    THEN <<sq[from + 1]>> \o positions(sq, from + 1, to)
    ELSE positions(sq, from + 1, to)

\* C24: list_invoices(limit, offset) returns the stored invoices
\* deduplicated by number at positions offset .. offset+limit-1, with no
\* number twice and exactly min(limit, max(0, n - offset)) entries, and no
\* stored number is ever missing from the deduplicated list.
C24_ListIsPage ==
    LET unique == unique_invoices(_invoices, 1, <<>>)
        n == Cardinality(StoredNumbers)
    IN  /\ {unique[k].invoice_number : k \in 1..Len(unique)} = StoredNumbers
        /\ last.op = "list_invoices" =>
             LET got == report[1].invoices
                 rest == IF n - last.offset > 0 THEN n - last.offset ELSE 0
             IN  /\ got = positions(unique, last.offset, last.offset + last.limit - 1)
                 /\ \A a, b \in 1..Len(got) :
                        a # b => got[a].invoice_number # got[b].invoice_number
                 /\ Len(got) = IF last.limit < rest THEN last.limit ELSE rest

\* C29: get_invoice_statistics leaves the sequence counter as it was, and
\* the next_invoice_number it reports is the number the next created invoice
\* receives.
C29_StatisticsReadOnly ==
    last.op = "get_invoice_statistics" =>
        /\ _sequence_counter = last.counter
        /\ report[1].next_invoice_number = Issue(Today[1]).number

LineTotalAmount(l) == l.line_total_amount

\* C26: in every invoice built by create_invoice_from_request,
\* totals.line_total_amount equals the sum of the line_total_amount values
\* of the invoice's lines.
C26_LineTotalIsSumOfLines ==
    (Created /\ invoice # <<>>) =>
        invoice[1].totals.line_total_amount
            = SumSeq(LineTotalAmount, invoice[1].invoice_lines)

\* the indices of the elements called name at this depth, in document order
ElementsAt(nodes, name, depth) ==
    SelectSeq([i \in 1..Len(nodes) |-> i],
              LAMBDA i : nodes[i].name = name /\ nodes[i].depth = depth)

\* TRUE iff the element at i has a child called name with this text
HasChild(nodes, i, name, text) ==
    \E j \in (i + 1)..Len(nodes) :
        /\ nodes[j].depth = nodes[i].depth + 1
        /\ nodes[j].name = name
        /\ nodes[j].text = text
        /\ \A m \in (i + 1)..j : nodes[m].depth > nodes[i].depth

\* C25: the header trade settlement holds one ApplicableTradeTax block per
\* VAT-breakdown row, in breakdown order, and each block carries the row's
\* calculated amount, basis amount and RateApplicablePercent, for every rate
\* from 0 to 100.
C25_TaxBlockPerRow ==
    (invoice # <<>> /\ xml # <<>> /\ last.op = "generate_cii_xml") =>
        LET nodes == xml[1].nodes
            blocks == ElementsAt(nodes, ram("ApplicableTradeTax"), 3)
            rows == invoice[1].vat_breakdown
        IN  /\ Len(blocks) = Len(rows)
            /\ \A k \in 1..Len(rows) :
                  /\ HasChild(nodes, blocks[k], ram("CalculatedAmount"),
                              AmountStr(rows[k].vat_amount))
                  /\ HasChild(nodes, blocks[k], ram("BasisAmount"),
                              AmountStr(rows[k].taxable_amount))
                  /\ HasChild(nodes, blocks[k], ram("RateApplicablePercent"),
                              RateStr(rows[k].vat_rate))

\* the amounts an invoice holds, among which an encoded amount is read back
InvoiceAmounts(invoice_) ==
    {invoice_.totals.line_total_amount, invoice_.totals.tax_exclusive_amount,
     invoice_.totals.tax_total_amount, invoice_.totals.tax_inclusive_amount,
     invoice_.totals.payable_amount, SumVat(invoice_.vat_breakdown)}

\* the amount whose encoding is the text of the summation element `local`
EncodedAmount(nodes, invoice_, local) ==
    LET i == ElementsAt(nodes, ram(local), 4)[1]
    IN  CHOOSE n \in InvoiceAmounts(invoice_) : AmountStr(n) = nodes[i].text

\* C27: the encoded TaxTotalAmount is the invoice's totals.tax_total_amount,
\* and so GrandTotalAmount = TaxBasisTotalAmount + TaxTotalAmount within 0.01
\* in the encoded document.
C27_TaxTotalIsTotals ==
    (invoice # <<>> /\ xml # <<>> /\ last.op = "generate_cii_xml") =>
        LET nodes == xml[1].nodes
            tax == EncodedAmount(nodes, invoice[1], "TaxTotalAmount")
            basis == EncodedAmount(nodes, invoice[1], "TaxBasisTotalAmount")
            grand == EncodedAmount(nodes, invoice[1], "GrandTotalAmount")
        IN  /\ tax = invoice[1].totals.tax_total_amount
            /\ Abs(grand - (basis + tax)) <= TOLERANCE

\* TRUE iff the element carries the attribute with this value
HasAttr(node, name, value) ==
    \E k \in 1..Len(node.attrs) :
        node.attrs[k].name = name /\ node.attrs[k].value = value

\* C28: the unitCode of each line's BilledQuantity is the line's
\* unit_of_measure: "HUR" for a line in hours, C62 for the default.
C28_UnitCodeIsUnitOfMeasure ==
    (invoice # <<>> /\ xml # <<>> /\ last.op = "generate_cii_xml") =>
        LET nodes == xml[1].nodes
            quantities == ElementsAt(nodes, ram("BilledQuantity"), 4)
            lines == invoice[1].invoice_lines
        IN  /\ Len(quantities) = Len(lines)
            /\ \A k \in 1..Len(lines) :
                  HasAttr(nodes[quantities[k]], <<"", "unitCode">>,
                          Lit(lines[k].unit_of_measure))

\* C30: in every report of validate_pdfa3 (veraPDF-parsed or fallback),
\* validate_facturx_structure, validate_comprehensive and
\* validate_facturx_file, is_valid is false exactly when errors is
\* non-empty.
C30_InvalidIffErrors ==
    (/\ last.op \in {"validate_pdfa3", "validate_facturx_structure",
                     "validate_comprehensive", "validate_facturx_file"}
     /\ report # <<>>)
    => (~report[1].is_valid <=> report[1].errors # <<>>)

====
